---------------------------- MODULE Spec2Model ----------------------------
(***************************************************************************)
(* A model of pdftext: the page worker coordinator (extraction.py), the    *)
(* glyph pipeline (pdf/chars.py, pdf/pages.py), the bounding boxes         *)
(* (schema.py, pdf/utils.py), the text normaliser and the reading order    *)
(* (postprocessing.py) and the command line (scripts/extract_text.py).     *)
(*                                                                         *)
(* The specifications of the module:                                       *)
(*   SpecPages    _get_pages: the clamp of the worker count, the chunking, *)
(*                the process pool and the gathering of its results;       *)
(*   SpecHyphens  handle_hyphens, one loop iteration per step;             *)
(*   SpecText     deduplicate_chars, get_spans, get_lines, get_blocks;     *)
(*   SpecBlocks   get_blocks on the lines of a page;                       *)
(*   SpecCli      extract_text_cli: the page range and its validation;     *)
(*   SpecTable    table_output: extraction, the assertion, the pairing;    *)
(*   SpecBbox     the operations on bounding boxes;                        *)
(*   SpecSort     sort_blocks, called once and on its own result;          *)
(*   SpecScripts  assign_scripts on the lines of a page;                   *)
(*   SpecImages   get_image_bboxes on the objects of a page;               *)
(*   SpecDedup    deduplicate_chars, called once and on its own result.    *)
(* A variable a specification does not use keeps its idle value.           *)
(*                                                                         *)
(* Python's None is the empty tuple and a present value x the tuple <<x>>. *)
(***************************************************************************)
EXTENDS Integers, Sequences, FiniteSets, TLC

None == << >>
Some(x) == << x >>

Min(a, b) == IF a <= b THEN a ELSE b
Max(a, b) == IF a >= b THEN a ELSE b
Abs(a) == IF a >= 0 THEN a ELSE 0 - a

(***************************************************************************)
(* Bounds of the model.                                                    *)
(***************************************************************************)
\* longest page-index list handed to _get_pages
MaxPages == 5
\* largest requested worker count
MaxWorkers == 3
\* largest value of settings.WORKER_PAGE_THRESHOLD tried
MaxThreshold == 2

VARIABLES
    \* ---- _get_pages (extraction.py) ----
    pc,                 \* where the caller of _get_pages is
    threshold,          \* settings.WORKER_PAGE_THRESHOLD
    doc_len,            \* len(pdf_doc)
    page_range,         \* the page_range argument (None or a list)
    workers_arg,        \* the workers argument (None or an int)
    workers,            \* the local `workers` after the clamp of line 57
    page_range_obj,     \* the page-index list that is processed
    page_range_chunks,  \* the chunks submitted to the pool, in order
    futures,            \* per chunk: "pending", "running", "done", "failed", "cancelled"
    results,            \* per chunk: what _get_page_range returned
    runs,               \* per chunk: how many times a worker started it
    completed,          \* the chunks in the order their workers finished them
    pages_lists,        \* the results gathered so far by list(executor.map(..))
    ret,                \* what _get_pages returned (None until it returns)
    start_method,       \* how the pool starts its worker processes: "fork" or "spawn"
    disable_links,      \* the disable_links argument of dictionary_output
    handles,            \* the document handles opened so far, in order
    \* ---- handle_hyphens (postprocessing.py) ----
    hpc,                \* "call", "loop" or "done"
    text_arg,           \* the text argument, as passed
    keep_hyphens,       \* the keep_hyphens argument
    text,               \* the local `text`; the return value once hpc = "done"
    text_i,             \* the loop index `i` of line 40
    new_text,           \* the local `new_text`
    found_hyphen,       \* the local `found_hyphen`
    \* ---- the per-page pipeline of get_pages (pages.py 457-471) ----
    tpc,                \* the next step: "dedup", "spans", "lines", "scripts", "blocks", "done"
    raw_chars,          \* what get_chars returned: the page's glyph stream
    chars,              \* the glyph stream after deduplicate_chars
    spans,              \* what get_spans returned
    lines,              \* what get_lines returned
    blocks,             \* what get_blocks returned
    \* ---- extract_text_cli (scripts/extract_text.py) ----
    cpc,                \* "call", "extract", "done" or "bad_parameter"
    range_str,          \* the --page_range option: None or its comma-separated parts
    cli_doc_len,        \* the local `doc_len`: len(pdf_doc)
    cli_pages,          \* the local `pages`: None or the parsed page list
    handed,             \* the page indices get_pages was called with
    \* ---- table_output (extraction.py 137-158) ----
    tbpc,               \* "call", "assert", "cells", "done" or "assertion_error"
    table_inputs,       \* the table_inputs argument: per entry, its number of tables
    pages_arg,          \* the pages argument: None or the pages the caller extracted
    tb_page_range,      \* the page_range argument
    tb_pages,           \* the local `pages` after line 148 (None before)
    extracted,          \* the page indices the extraction of line 148 processed
    out_tables,         \* per page paired so far: the number of tables mapped
    \* ---- Bbox operations (schema.py, pdf/utils.py, extraction.py 128-133) ----
    bpc,                \* "call", "done" or "value_error"
    op,                 \* the operation called: "merge", "horizontal_distance", "rotate", "transform_bbox", "clip" or "page_bbox"
    box_a,              \* the box the operation is called on (self, bbox)
    box_b,              \* the other box, or the page's bbox
    page_width,         \* the page_width argument of rotate
    page_height,        \* the page_height argument of rotate
    rotation,           \* the rotation argument, in degrees
    box_out,            \* the box returned last: None or the box
    turns,              \* how many times rotate has been applied
    distance,           \* what horizontal_distance returned (None before)
    \* ---- sort_blocks (postprocessing.py 85-101) ----
    spc,                \* "call", "again" or "done"
    sort_in,            \* the blocks argument
    sort_out,           \* what sort_blocks returned
    sort_again,         \* what sort_blocks returned for its own result
    \* ---- get_image_bboxes (pdf/pages.py 376-423) ----
    ipc,                \* "call" or "done"
    objects,            \* what page.get_objects() gives: per object its type and get_pos()
    img_page_bbox,      \* page.get_bbox()
    img_page_rotation,  \* page.get_rotation()
    image_bboxes,       \* what get_image_bboxes returned: None or the list
    \* ---- deduplicate_chars (pdf/chars.py 73-138), applied twice ----
    dpc,                \* "call", "again" or "done"
    dedup_in,           \* the chars argument
    dedup_out,          \* what deduplicate_chars returned
    dedup_again         \* what deduplicate_chars returned for its own result

pageVars == << pc, threshold, doc_len, page_range, workers_arg, workers,
               page_range_obj, page_range_chunks, futures, results, runs,
               completed, pages_lists, ret,
             start_method, disable_links, handles >>

hyphenVars == << hpc, text_arg, keep_hyphens, text, text_i, new_text, found_hyphen >>

textVars == << tpc, raw_chars, chars, spans, lines, blocks >>

cliVars == << cpc, range_str, cli_doc_len, cli_pages, handed >>

tableVars == << tbpc, table_inputs, pages_arg, tb_page_range, tb_pages, extracted, out_tables >>

boxVars == << bpc, op, box_a, box_b, page_width, page_height, rotation, box_out, turns, distance >>

sortVars == << spc, sort_in, sort_out, sort_again >>

imgVars == << ipc, objects, img_page_bbox, img_page_rotation, image_bboxes >>

dedupVars == << dpc, dedup_in, dedup_out, dedup_again >>

vars == << pageVars, hyphenVars, textVars, cliVars, tableVars, boxVars, sortVars, imgVars, dedupVars >>

\* extract_text_cli (scripts/extract_text.py): not running
IdleCli ==
    /\ cpc = "idle"
    /\ range_str = None
    /\ cli_doc_len = 0
    /\ cli_pages = None
    /\ handed = << >>

\* table_output (extraction.py 137-158): not running
IdleTable ==
    /\ tbpc = "idle"
    /\ table_inputs = << >>
    /\ pages_arg = None
    /\ tb_page_range = << >>
    /\ tb_pages = None
    /\ extracted = << >>
    /\ out_tables = << >>

\* Bbox operations (schema.py, pdf/utils.py, extraction.py 128-133): not running
IdleBox ==
    /\ bpc = "idle"
    /\ op = "none"
    /\ box_a = << 0, 0, 0, 0 >>
    /\ box_b = << 0, 0, 0, 0 >>
    /\ page_width = 0
    /\ page_height = 0
    /\ rotation = 0
    /\ box_out = None
    /\ turns = 0
    /\ distance = None

\* sort_blocks (postprocessing.py 85-101): not running
IdleSort ==
    /\ spc = "idle"
    /\ sort_in = << >>
    /\ sort_out = << >>
    /\ sort_again = << >>

\* get_image_bboxes (pdf/pages.py 376-423): not running
IdleImages ==
    /\ ipc = "idle"
    /\ objects = << >>
    /\ img_page_bbox = << 0, 0, 0, 0 >>
    /\ img_page_rotation = 0
    /\ image_bboxes = << >>

\* deduplicate_chars (pdf/chars.py 73-138), applied twice: not running
IdleDedup ==
    /\ dpc = "idle"
    /\ dedup_in = << >>
    /\ dedup_out = << >>
    /\ dedup_again = << >>

(***************************************************************************)
(* Sequences.                                                              *)
(***************************************************************************)
\* Python's lst[a:b] for 0 <= a <= b: both ends are clamped to len(lst)
Slice(lst, a, b) == SubSeq(lst, Min(a, Len(lst)) + 1, Min(b, Len(lst)))

\* [x for sublist in lists for x in sublist]
RECURSIVE Flatten(_)
Flatten(lists) ==
    IF lists = << >> THEN << >>
    ELSE Head(lists) \o Flatten(Tail(lists))

\* list(range(n))
Range(n) == [i \in 1..n |-> i - 1]

(***************************************************************************)
(* get_pages (pages.py): one Page per page index, in the order of the      *)
(* list.  What the page holds is a function of the document and the index  *)
(* alone; the model keeps the index and the page size the document gives.  *)
(***************************************************************************)
PageData(page_idx) == [page |-> page_idx, width |-> 100 + page_idx]

get_pages(range_list) == [i \in 1..Len(range_list) |-> PageData(range_list[i])]

(***************************************************************************)
(* _get_pages (extraction.py 49-73).                                       *)
(***************************************************************************)
\* line 57: min(workers, len(page_range_obj) // WORKER_PAGE_THRESHOLD)
ClampNoFloor(w, n, thr) == Min(w, n)
ClampWorkers(w, n, thr) == Min(w, n \div thr)

\* line 66: math.ceil(len(page_range_obj) / workers)
PagesPerWorkerFloor(n, w) == n \div w
PagesPerWorker(n, w) == (n + w - 1) \div w

\* line 67: one slice of pages_per_worker indices per worker
Chunks(lst, w) ==
    LET pages_per_worker == PagesPerWorker(Len(lst), w)
    IN  [k \in 1..w |-> Slice(lst, (k - 1) * pages_per_worker, k * pages_per_worker)]

\* line 70: executor.map yields the results in the order the chunks were
\* submitted: the next one gathered is chunk number len(pages_lists) + 1
GatherCompletionOrder(gathered, k) == TRUE
GatherNext(gathered, k) == k = gathered + 1

\* line 70: the result of a failed chunk raises when it is gathered
ChunkSkipped(status) == FALSE
ChunkRaises(status) == status = "failed"

\* no page is in the pipeline
IdleText ==
    /\ tpc = "idle"
    /\ raw_chars = << >>
    /\ chars = << >>
    /\ spans = << >>
    /\ lines = << >>
    /\ blocks = << >>

\* handle_hyphens is not running
IdleHyphens ==
    /\ hpc = "idle"
    /\ text_arg = << >>
    /\ keep_hyphens = FALSE
    /\ text = << >>
    /\ text_i = 0
    /\ new_text = << >>
    /\ found_hyphen = FALSE

\* the page lists a caller may pass: range(n) from an offset, the same
\* reversed, and n times the same page
PageLists ==
    UNION { { [i \in 1..n |-> i], [i \in 1..n |-> n - i], [i \in 1..n |-> 0] }
            : n \in 0..MaxPages }

\* the start methods of a process pool: a forked worker ends by os._exit, a
\* spawned one by sys.exit
StartMethods == { "fork", "spawn" }

\* lines 21-28: _load_pdf opens a handle for the process that calls it
Opened(owner) == [ owner |-> owner, closes |-> 0, process_exited |-> FALSE ]

\* pdf_doc.close()
Closed(handle) == [ handle EXCEPT !.closes = @ + 1 ]

\* the hooks registered with atexit run when the process ends
ExitHooksRun(method) == method = "spawn"

\* lines 37-46: a worker process ends; its hook worker_shutdown closes the
\* handle if the hooks run
WorkerExit(handle) ==
    IF handle.owner = "worker" /\ ~handle.process_exited
    THEN [ (IF ExitHooksRun(start_method) THEN Closed(handle) ELSE handle)
             EXCEPT !.process_exited = TRUE ]
    ELSE handle

\* line 69: the with block is left and every worker process ends
PoolShutdownHandles(hs) == [k \in DOMAIN hs |-> WorkerExit(hs[k])]

\* a worker process of the pool has not ended
PoolUp == \E k \in DOMAIN handles :
              handles[k].owner = "worker" /\ ~handles[k].process_exited

InitPages ==
    /\ pc = "start"
    /\ threshold \in 1..MaxThreshold
    /\ \/ /\ doc_len \in 0..MaxPages
          /\ page_range = None
       \/ /\ doc_len = MaxPages + 1
          /\ page_range \in { Some(l) : l \in PageLists }
    /\ workers_arg \in { None } \cup { Some(w) : w \in (0 - 1)..MaxWorkers }
    /\ workers = None
    /\ page_range_obj = << >>
    /\ page_range_chunks = << >>
    /\ futures = << >>
    /\ results = << >>
    /\ runs = << >>
    /\ completed = << >>
    /\ pages_lists = << >>
    /\ ret = None
    /\ start_method \in StartMethods
    /\ disable_links \in BOOLEAN
    /\ handles = << >>
    /\ IdleHyphens
    /\ IdleText
    /\ IdleCli
    /\ IdleTable
    /\ IdleBox
    /\ IdleSort
    /\ IdleImages
    /\ IdleDedup

\* lines 51-54
PageRangeObj == IF page_range = None THEN Range(doc_len) ELSE page_range[1]

\* lines 56-57
Clamped ==
    IF workers_arg = None THEN None
    ELSE Some(ClampWorkers(workers_arg[1], Len(PageRangeObj), threshold))

\* line 59
Sequential(w) == IF w = None THEN TRUE ELSE w[1] <= 1

\* lines 50-62: the sequential path, in the caller
GetPagesSequential ==
    /\ pc = "start"
    /\ Sequential(Clamped)
    /\ workers' = Clamped
    /\ page_range_obj' = PageRangeObj
    /\ ret' = Some(get_pages(PageRangeObj))
    /\ handles' = << Closed(Opened("caller")) >>
    /\ pc' = "returned"
    /\ UNCHANGED << start_method, disable_links, 
                    threshold, doc_len, page_range, workers_arg,
                    page_range_chunks, futures, results, runs, completed,
                    pages_lists >>
    /\ UNCHANGED << hyphenVars, textVars, cliVars, tableVars, boxVars, sortVars, imgVars, dedupVars >>

\* line 60 raises: get_pages fails on a page and nothing is returned
GetPagesSequentialRaises ==
    /\ pc = "start"
    /\ Sequential(Clamped)
    /\ PageRangeObj # << >>
    /\ workers' = Clamped
    /\ page_range_obj' = PageRangeObj
    /\ handles' = << Opened("caller") >>
    /\ pc' = "raised"
    /\ UNCHANGED << start_method, disable_links, 
                    threshold, doc_len, page_range, workers_arg,
                    page_range_chunks, futures, results, runs, completed,
                    pages_lists, ret >>
    /\ UNCHANGED << hyphenVars, textVars, cliVars, tableVars, boxVars, sortVars, imgVars, dedupVars >>

\* lines 50-70: the multi-worker path up to the submission of every chunk;
\* the pool starts one process per chunk and each runs worker_init
GetPagesSubmit ==
    /\ pc = "start"
    /\ ~Sequential(Clamped)
    /\ workers' = Clamped
    /\ page_range_obj' = PageRangeObj
    /\ page_range_chunks' = Chunks(PageRangeObj, Clamped[1])
    /\ futures' = [k \in 1..Clamped[1] |-> "pending"]
    /\ results' = [k \in 1..Clamped[1] |-> << >>]
    /\ runs' = [k \in 1..Clamped[1] |-> 0]
    /\ handles' = << Closed(Opened("caller")) >>
                   \o [k \in 1..Clamped[1] |-> Opened("worker")]
    /\ pc' = "map"
    /\ UNCHANGED << start_method, disable_links, 
                    threshold, doc_len, page_range, workers_arg, completed,
                    pages_lists, ret >>
    /\ UNCHANGED << hyphenVars, textVars, cliVars, tableVars, boxVars, sortVars, imgVars, dedupVars >>

\* a worker process takes a pending chunk (at most `workers` run at once)
WorkerTake(k) ==
    /\ pc = "map"
    /\ futures[k] = "pending"
    /\ Cardinality({ j \in DOMAIN futures : futures[j] = "running" }) < workers[1]
    /\ futures' = [futures EXCEPT ![k] = "running"]
    /\ runs' = [runs EXCEPT ![k] = @ + 1]
    /\ UNCHANGED << start_method, disable_links, handles, 
                    pc, threshold, doc_len, page_range, workers_arg, workers,
                    page_range_obj, page_range_chunks, results, completed,
                    pages_lists, ret >>
    /\ UNCHANGED << hyphenVars, textVars, cliVars, tableVars, boxVars, sortVars, imgVars, dedupVars >>

\* _get_page_range (lines 31-34) returns in the worker
WorkerFinish(k) ==
    /\ futures[k] = "running"
    /\ futures' = [futures EXCEPT ![k] = "done"]
    /\ results' = [results EXCEPT ![k] = get_pages(page_range_chunks[k])]
    /\ completed' = Append(completed, k)
    /\ UNCHANGED << start_method, disable_links, handles, 
                    pc, threshold, doc_len, page_range, workers_arg, workers,
                    page_range_obj, page_range_chunks, runs, pages_lists, ret >>
    /\ UNCHANGED << hyphenVars, textVars, cliVars, tableVars, boxVars, sortVars, imgVars, dedupVars >>

\* _get_page_range raises in the worker
WorkerFail(k) ==
    /\ futures[k] = "running"
    /\ page_range_chunks[k] # << >>
    /\ futures' = [futures EXCEPT ![k] = "failed"]
    /\ completed' = Append(completed, k)
    /\ UNCHANGED << start_method, disable_links, handles, 
                    pc, threshold, doc_len, page_range, workers_arg, workers,
                    page_range_obj, page_range_chunks, results, runs,
                    pages_lists, ret >>
    /\ UNCHANGED << hyphenVars, textVars, cliVars, tableVars, boxVars, sortVars, imgVars, dedupVars >>

\* line 70: list(..) takes the next result of the map iterator
Gather(k) ==
    /\ pc = "map"
    /\ k \in DOMAIN futures
    /\ GatherNext(Len(pages_lists), k)
    /\ futures[k] \in { "done", "failed" }
    /\ ~ChunkRaises(futures[k])
    /\ pages_lists' = Append(pages_lists, results[k])
    /\ UNCHANGED << start_method, disable_links, handles, 
                    pc, threshold, doc_len, page_range, workers_arg, workers,
                    page_range_obj, page_range_chunks, futures, results, runs,
                    completed, ret >>
    /\ UNCHANGED << hyphenVars, textVars, cliVars, tableVars, boxVars, sortVars, imgVars, dedupVars >>

\* line 70: the next result raises; the iterator cancels the chunks that have
\* not started, the pool is shut down and the exception leaves _get_pages
GatherRaises(k) ==
    /\ pc = "map"
    /\ k \in DOMAIN futures
    /\ GatherNext(Len(pages_lists), k)
    /\ ChunkRaises(futures[k])
    /\ futures' = [j \in DOMAIN futures |->
                      IF futures[j] = "pending" THEN "cancelled" ELSE futures[j]]
    /\ pc' = "raised"
    /\ UNCHANGED << start_method, disable_links, handles, 
                    threshold, doc_len, page_range, workers_arg, workers,
                    page_range_obj, page_range_chunks, results, runs,
                    completed, pages_lists, ret >>
    /\ UNCHANGED << hyphenVars, textVars, cliVars, tableVars, boxVars, sortVars, imgVars, dedupVars >>

\* lines 69-73: every result is gathered; the pool is shut down; flatten
\* and return
GetPagesReturn ==
    /\ pc = "map"
    /\ Len(pages_lists) = Len(futures)
    /\ ret' = Some(Flatten(pages_lists))
    /\ handles' = PoolShutdownHandles(handles)
    /\ pc' = "returned"
    /\ UNCHANGED << start_method, disable_links, 
                    threshold, doc_len, page_range, workers_arg, workers,
                    page_range_obj, page_range_chunks, futures, results, runs,
                    completed, pages_lists >>
    /\ UNCHANGED << hyphenVars, textVars, cliVars, tableVars, boxVars, sortVars, imgVars, dedupVars >>

\* line 69 after a chunk raised: the pool waits for the chunks that run, and
\* its worker processes end
PoolShutdown ==
    /\ pc = "raised"
    /\ PoolUp
    /\ \A k \in DOMAIN futures : futures[k] # "running"
    /\ handles' = PoolShutdownHandles(handles)
    /\ UNCHANGED << pc, threshold, doc_len, page_range, workers_arg, workers,
                    page_range_obj, page_range_chunks, futures, results, runs,
                    completed, pages_lists, ret, start_method, disable_links >>
    /\ UNCHANGED << hyphenVars, textVars, cliVars, tableVars, boxVars, sortVars, imgVars, dedupVars >>

\* lines 105-110: dictionary_output goes on after _get_pages returned; it
\* opens a handle of its own to resolve the links
DictionaryOutputLinks ==
    /\ pc = "returned"
    /\ handles' = IF disable_links THEN handles
                  ELSE Append(handles, Closed(Opened("links")))
    /\ pc' = "output"
    /\ UNCHANGED << threshold, doc_len, page_range, workers_arg, workers,
                    page_range_obj, page_range_chunks, futures, results, runs,
                    completed, pages_lists, ret, start_method, disable_links >>
    /\ UNCHANGED << hyphenVars, textVars, cliVars, tableVars, boxVars, sortVars, imgVars, dedupVars >>

NextPages ==
    \/ GetPagesSequential
    \/ GetPagesSequentialRaises
    \/ GetPagesSubmit
    \/ \E k \in DOMAIN futures : WorkerTake(k)
    \/ \E k \in DOMAIN futures : WorkerFinish(k)
    \/ \E k \in DOMAIN futures : WorkerFail(k)
    \/ \E k \in DOMAIN futures : Gather(k)
    \/ \E k \in DOMAIN futures : GatherRaises(k)
    \/ GetPagesReturn
    \/ PoolShutdown
    \/ DictionaryOutputLinks

SpecPages == InitPages /\ [][NextPages]_vars

(***************************************************************************)
(* Claims about _get_pages, checked under SpecPages.                       *)
(***************************************************************************)
\* _get_pages has returned to its caller
Returned == pc \in { "returned", "output" }

\* the multi-worker path was taken
MultiWorker == page_range_chunks # << >>

\* the number of positions of the page list before chunk k
RECURSIVE ChunkOffset(_)
ChunkOffset(k) ==
    IF k <= 1 THEN 0 ELSE ChunkOffset(k - 1) + Len(page_range_chunks[k - 1])

\* C1: whatever the worker count and the order the workers finish in,
\* _get_pages returns one page per entry of the page-index list, in the order
\* of the list: the result of the sequential run get_pages(page_range_obj).
C1_PagesInInputOrder ==
    pc = "returned" =>
        /\ Len(ret[1]) = Len(page_range_obj)
        /\ \A i \in 1..Len(page_range_obj) : ret[1][i].page = page_range_obj[i]
        /\ ret[1] = get_pages(page_range_obj)

\* C1 witness: a multi-worker run returned although a later chunk was
\* finished before an earlier one, on a list of distinct pages
C1_Witness ==
    /\ pc = "returned"
    /\ MultiWorker
    /\ Len(completed) >= 2
    /\ completed[1] > completed[2]
    /\ page_range_obj[1] # page_range_obj[Len(page_range_obj)]

C2_NoEmptyChunk ==
    MultiWorker =>
        \A k \in DOMAIN page_range_chunks : Len(page_range_chunks[k]) >= 1

\* C3: the chunks are contiguous slices of the page list that follow one
\* another and cover it: position p of the list is entry p - offset of exactly
\* one chunk; and every chunk is started by a worker at most once, exactly
\* once when _get_pages returns.
C3_ChunksPartitionList ==
    MultiWorker =>
        /\ Len(page_range_chunks) = workers[1]
        /\ ChunkOffset(Len(page_range_chunks) + 1) = Len(page_range_obj)
        /\ \A k \in DOMAIN page_range_chunks :
              \A i \in 1..Len(page_range_chunks[k]) :
                 page_range_chunks[k][i] = page_range_obj[ChunkOffset(k) + i]
        /\ \A p \in 1..Len(page_range_obj) :
              Cardinality({ k \in DOMAIN page_range_chunks :
                              /\ ChunkOffset(k) < p
                              /\ p <= ChunkOffset(k) + Len(page_range_chunks[k]) }) = 1
        /\ \A k \in DOMAIN runs : runs[k] <= 1
        /\ pc = "returned" => \A k \in DOMAIN runs : runs[k] = 1

\* C3 witness: a returned multi-worker run whose chunks differ in length
C3_Witness ==
    /\ pc = "returned"
    /\ MultiWorker
    /\ Len(page_range_chunks[1]) # Len(page_range_chunks[Len(page_range_chunks)])
    /\ \A k \in DOMAIN runs : runs[k] = 1

\* C4: once a chunk has failed, _get_pages returns nothing: a page list is
\* returned only when every chunk succeeded, and then it holds every page.
C4_NoPartialResult ==
    /\ (\E k \in DOMAIN futures : futures[k] = "failed") =>
          (~Returned /\ ret = None)
    /\ pc = "raised" => ret = None
    /\ ret # None =>
          /\ Returned
          /\ Len(ret[1]) = Len(page_range_obj)

\* C4 witness: the call has raised after the results of earlier chunks were
\* gathered, and nothing is returned
C4_Witness ==
    /\ pc = "raised"
    /\ MultiWorker
    /\ Len(pages_lists) >= 1
    /\ pages_lists[1] # << >>
    /\ \E k \in DOMAIN futures : futures[k] = "failed"
    /\ ret = None

(***************************************************************************)
(* handle_hyphens (postprocessing.py 32-54).  A text is a sequence of      *)
(* characters; a character is written as a one-character string, the       *)
(* control characters by their names.                                      *)
(***************************************************************************)
\* postprocessing.py 16: "\x02"
HYPHEN_CHAR == "STX"
\* "\n"
LF == "LF"
\* utils.py 10: LINE_BREAKS ("\n" and "\r")
LINE_BREAKS == { "LF", "CR" }
\* utils.py 12: SPACES (" ", "￾", "﻿", "\xa0")
SPACES == { " ", "U+FFFE", "U+FEFF", "NBSP" }
\* what str.rstrip() strips among the characters of the model
WhitespaceChars == { " ", "LF", "CR", "TAB", "NBSP" }

\* longest text drawn over Alphabet
MaxText == 4

Alphabet == { "a", "b", " ", "-", LF, HYPHEN_CHAR }

\* the text of the joined-word example: "exam\x02ple "
ExampleText == << "e", "x", "a", "m", HYPHEN_CHAR, "p", "l", "e", " " >>

Texts ==
    UNION { [1..n -> Alphabet] : n \in 0..MaxText } \cup { ExampleText }

\* str.rstrip()
RECURSIVE RStrip(_)
RStrip(t) ==
    IF t = << >> THEN << >>
    ELSE IF t[Len(t)] \in WhitespaceChars THEN RStrip(SubSeq(t, 1, Len(t) - 1))
    ELSE t

\* text.replace(HYPHEN_CHAR, "-\n") with count 1: only the first marker
RECURSIVE ReplaceFirstHyphen(_)
ReplaceFirstHyphen(t) ==
    IF t = << >> THEN << >>
    ELSE IF Head(t) = HYPHEN_CHAR THEN << "-", LF >> \o Tail(t)
    ELSE << Head(t) >> \o ReplaceFirstHyphen(Tail(t))

\* line 34: text.replace(HYPHEN_CHAR, "-\n")
RECURSIVE ReplaceHyphens(_)
ReplaceHyphens(t) ==
    IF t = << >> THEN << >>
    ELSE IF Head(t) = HYPHEN_CHAR THEN << "-", LF >> \o ReplaceHyphens(Tail(t))
    ELSE << Head(t) >> \o ReplaceHyphens(Tail(t))

\* line 40: range(len(text) - 1)
LoopEndAtLen(t) == Len(t)
LoopEnd(t) == Len(t) - 1

\* _get_pages is not running
IdlePages ==
    /\ pc = "idle"
    /\ threshold = 1
    /\ doc_len = 0
    /\ page_range = None
    /\ workers_arg = None
    /\ workers = None
    /\ page_range_obj = << >>
    /\ page_range_chunks = << >>
    /\ futures = << >>
    /\ results = << >>
    /\ runs = << >>
    /\ completed = << >>
    /\ pages_lists = << >>
    /\ ret = None
    /\ start_method = "fork"
    /\ disable_links = FALSE
    /\ handles = << >>

InitHyphens ==
    /\ hpc = "call"
    /\ text_arg \in Texts
    /\ keep_hyphens \in BOOLEAN
    /\ text = text_arg
    /\ text_i = 0
    /\ new_text = << >>
    /\ found_hyphen = FALSE
    /\ IdlePages
    /\ IdleText
    /\ IdleCli
    /\ IdleTable
    /\ IdleBox
    /\ IdleSort
    /\ IdleImages
    /\ IdleDedup

\* lines 33-34 and 54
HyphensKeep ==
    /\ hpc = "call"
    /\ keep_hyphens
    /\ text' = ReplaceHyphens(text)
    /\ hpc' = "done"
    /\ UNCHANGED << text_arg, keep_hyphens, text_i, new_text, found_hyphen >>
    /\ UNCHANGED << pageVars, textVars, cliVars, tableVars, boxVars, sortVars, imgVars, dedupVars >>

\* lines 35-36 and 54
HyphensEmpty ==
    /\ hpc = "call"
    /\ ~keep_hyphens
    /\ Len(text) = 0
    /\ hpc' = "done"
    /\ UNCHANGED << text_arg, keep_hyphens, text, text_i, new_text, found_hyphen >>
    /\ UNCHANGED << pageVars, textVars, cliVars, tableVars, boxVars, sortVars, imgVars, dedupVars >>

\* lines 37-39
HyphensEnterLoop ==
    /\ hpc = "call"
    /\ ~keep_hyphens
    /\ Len(text) # 0
    /\ new_text' = << >>
    /\ found_hyphen' = FALSE
    /\ text_i' = 0
    /\ hpc' = "loop"
    /\ UNCHANGED << text_arg, keep_hyphens, text >>
    /\ UNCHANGED << pageVars, textVars, cliVars, tableVars, boxVars, sortVars, imgVars, dedupVars >>

\* lines 40-52: one iteration, on text[i]
HyphensStep ==
    /\ hpc = "loop"
    /\ text_i < LoopEnd(text)
    /\ LET c == text[text_i + 1]
       IN  IF c = HYPHEN_CHAR
           THEN /\ found_hyphen' = TRUE
                /\ new_text' = new_text
           ELSE IF found_hyphen
           THEN IF c \in LINE_BREAKS
                THEN UNCHANGED << new_text, found_hyphen >>
                ELSE IF c \in SPACES
                THEN /\ new_text' = Append(RStrip(new_text), LF)
                     /\ found_hyphen' = FALSE
                ELSE /\ new_text' = Append(new_text, c)
                     /\ found_hyphen' = found_hyphen
           ELSE /\ new_text' = Append(new_text, c)
                /\ found_hyphen' = found_hyphen
    /\ text_i' = text_i + 1
    /\ UNCHANGED << hpc, text_arg, keep_hyphens, text >>
    /\ UNCHANGED << pageVars, textVars, cliVars, tableVars, boxVars, sortVars, imgVars, dedupVars >>

\* lines 53-54: the loop is over
HyphensReturn ==
    /\ hpc = "loop"
    /\ text_i >= LoopEnd(text)
    /\ text' = new_text
    /\ hpc' = "done"
    /\ UNCHANGED << text_arg, keep_hyphens, text_i, new_text, found_hyphen >>
    /\ UNCHANGED << pageVars, textVars, cliVars, tableVars, boxVars, sortVars, imgVars, dedupVars >>

NextHyphens ==
    \/ HyphensKeep
    \/ HyphensEmpty
    \/ HyphensEnterLoop
    \/ HyphensStep
    \/ HyphensReturn

SpecHyphens == InitHyphens /\ [][NextHyphens]_vars

(***************************************************************************)
(* Claims about handle_hyphens, checked under SpecHyphens.                 *)
(***************************************************************************)
Letters == { "a", "b", "e", "x", "m", "p", "l" }

\* the number of soft-hyphen markers among the first n characters of t
RECURSIVE MarkersBefore(_, _)
MarkersBefore(t, n) ==
    IF n <= 0 THEN 0
    ELSE MarkersBefore(t, n - 1) + (IF t[n] = HYPHEN_CHAR THEN 1 ELSE 0)

\* t is a word split by one marker and followed by one space: letters,
\* the marker, letters, " "
SplitWordAndSpace(t) ==
    /\ Len(t) >= 4
    /\ t[Len(t)] = " "
    /\ \E m \in 2..(Len(t) - 2) :
          /\ t[m] = HYPHEN_CHAR
          /\ \A j \in 1..(Len(t) - 1) : j # m => t[j] \in Letters

\* t without its markers
RECURSIVE WithoutMarkers(_)
WithoutMarkers(t) ==
    IF t = << >> THEN << >>
    ELSE IF Head(t) = HYPHEN_CHAR THEN WithoutMarkers(Tail(t))
    ELSE << Head(t) >> \o WithoutMarkers(Tail(t))

\* C9: in join mode a word split by a marker and followed by a space comes
\* out as the joined word followed by a single newline in place of the space
\* ("exam\x02ple " gives "example" and a newline).
C9_JoinedWordThenNewline ==
    (hpc = "done" /\ ~keep_hyphens /\ SplitWordAndSpace(text_arg)) =>
        text = Append(WithoutMarkers(SubSeq(text_arg, 1, Len(text_arg) - 1)), LF)

\* C10: with keep_hyphens the output holds no marker; character j of the
\* input is found, unchanged, after two characters for every marker before
\* it, a marker as "-" followed by a newline; and nothing else is in the
\* output.
C10_KeepReplacesEveryMarker ==
    (hpc = "done" /\ keep_hyphens) =>
        /\ \A j \in 1..Len(text) : text[j] # HYPHEN_CHAR
        /\ Len(text) = Len(text_arg) + MarkersBefore(text_arg, Len(text_arg))
        /\ \A j \in 1..Len(text_arg) :
              LET k == j + MarkersBefore(text_arg, j - 1)
              IN  IF text_arg[j] = HYPHEN_CHAR
                  THEN text[k] = "-" /\ text[k + 1] = LF
                  ELSE text[k] = text_arg[j]

\* C10 witness: a kept text with two markers and other characters, "-"
\* among them
C10_Witness ==
    /\ hpc = "done"
    /\ keep_hyphens
    /\ MarkersBefore(text_arg, Len(text_arg)) >= 2
    /\ \E j \in 1..Len(text_arg) : text_arg[j] = "-"
    /\ \E j \in 1..Len(text_arg) : text_arg[j] \in Letters

(***************************************************************************)
(* Bbox (schema.py).  A box is <<x_start, y_start, x_end, y_end>>; the     *)
(* coordinates are counted in halves of a unit, so that a box can lie on   *)
(* either side of a rounding boundary.                                     *)
(***************************************************************************)
x_start(b) == b[1]
y_start(b) == b[2]
x_end(b) == b[3]
y_end(b) == b[4]
height(b) == b[4] - b[2]
width(b) == b[3] - b[1]
area(b) == width(b) * height(b)

\* twice Bbox.center: the center itself may fall between two grid points
center2(b) == << b[1] + b[3], b[2] + b[4] >>

MergeFirstOnly(a, b) == a
merge(a, b) ==
    << Min(a[1], b[1]), Min(a[2], b[2]), Max(a[3], b[3]), Max(a[4], b[4]) >>

overlap_x(a, b) == Max(0, Min(a[3], b[3]) - Max(a[1], b[1]))
overlap_y(a, b) == Max(0, Min(a[4], b[4]) - Max(a[2], b[2]))

horizontal_distance(a, b) ==
    IF a[1] < b[1] THEN b[1] - a[1]
    ELSE IF b[3] < a[1] THEN a[1] - b[3]
    ELSE 0

intersection_area(a, b) == overlap_x(a, b) * overlap_y(a, b)

\* intersection_pct(a, b) > 0: the quotient intersection / area is positive
\* when both have the same sign, and the result is 0.0 for a box of area 0
IntersectionPctPositive(a, b) ==
    IF area(a) = 0 THEN FALSE
    ELSE intersection_area(a, b) * area(a) > 0

\* round(x, 0) of a coordinate counted in halves: to the nearest whole unit,
\* a tie to the even one (the result is in whole units)
RoundExact(v) == v
Round(v) ==
    IF v % 2 = 0 THEN v \div 2
    ELSE IF ((v - 1) \div 2) % 2 = 0 THEN (v - 1) \div 2
    ELSE (v + 1) \div 2

Last(t) == t[Len(t)]

(***************************************************************************)
(* deduplicate_chars (chars.py 73-138).  A glyph (Char) is a record of     *)
(* bbox, char, rotation, font and char_idx; its rotation is an angle in    *)
(* tenths of a radian.                                                     *)
(***************************************************************************)
\* lines 78-92: word_break
NewWord(char) ==
    [ bbox |-> char.bbox, text |-> << char.char >>,
      rotation |-> char.rotation \div 10,
      font |-> char.font,
      char_start_idx |-> char.char_idx, char_end_idx |-> char.char_idx,
      chars |-> << char >>, url |-> "", superscript |-> FALSE, subscript |-> FALSE ]

\* line 110: the font keys compared when words are built
WordFontKeys == { "name", "flags", "size", "weight" }

\* any(a[k] != b[k] for k in keys)
FontDiffers(a, b, keys) == \E k \in keys : a[k] # b[k]

\* lines 103, 110, 114: a new word starts at char
WordBreakBefore(word, char) ==
    \/ Last(word.text) \in { LF, " ", HYPHEN_CHAR }
    \/ FontDiffers(char.font, word.font, WordFontKeys)
    \/ char.rotation # 10 * word.rotation

\* lines 118-121
ExtendWord(word, char) ==
    [ word EXCEPT !.text = Append(@, char.char),
                  !.char_end_idx = char.char_idx,
                  !.bbox = merge(@, char.bbox),
                  !.chars = Append(@, char) ]

\* lines 94-121: the words built from the first n glyphs
RECURSIVE WordsUpTo(_, _)
WordsUpTo(cs, n) ==
    IF n = 0 THEN << >>
    ELSE LET words == WordsUpTo(cs, n - 1)
             char == cs[n]
         IN  IF words = << >> THEN << NewWord(char) >>
             ELSE IF WordBreakBefore(Last(words), char)
                  THEN Append(words, NewWord(char))
                  ELSE [words EXCEPT ![Len(words)] = ExtendWord(@, char)]

Words(cs) == WordsUpTo(cs, Len(cs))

\* lines 128-133: the key of a word
DedupKeyExactBbox(word) ==
    << word.bbox, word.text, word.rotation,
       word.font.name, word.font.flags, word.font.size, word.font.weight >>
DedupKey(word) ==
    << << Round(word.bbox[1]), Round(word.bbox[2]),
          Round(word.bbox[3]), Round(word.bbox[4]) >>,
       word.text, word.rotation,
       word.font.name, word.font.flags, word.font.size, word.font.weight >>

\* lines 124-136: the words from number k on whose key is not in seen
RECURSIVE DedupedFrom(_, _, _)
DedupedFrom(words, k, seen) ==
    IF k > Len(words) THEN << >>
    ELSE IF DedupKey(words[k]) \notin seen
         THEN << words[k] >> \o DedupedFrom(words, k + 1, seen \cup { DedupKey(words[k]) })
         ELSE DedupedFrom(words, k + 1, seen)

\* line 138
deduplicate_chars(cs) ==
    LET deduped == DedupedFrom(Words(cs), 1, { })
    IN  Flatten([j \in 1..Len(deduped) |-> deduped[j].chars])

(***************************************************************************)
(* get_spans (pages.py 138-230).  The two thresholds are counted in        *)
(* tenths; get_pages passes its own defaults (pages.py 431-432).           *)
(***************************************************************************)
\* pages.py 431: superscript_height_threshold = 0.7, in tenths
superscript_height_threshold == 7
\* pages.py 432: line_distance_threshold = 0.1, in tenths
line_distance_threshold == 1

\* lines 148-164: span_break; the new span, the width sum and the last box
NewSpan(char) ==
    [ bbox |-> char.bbox, text |-> << char.char >>,
      rotation |-> char.rotation,
      font |-> char.font,
      char_start_idx |-> char.char_idx, char_end_idx |-> char.char_idx,
      chars |-> << char >>, url |-> "", superscript |-> FALSE, subscript |-> FALSE ]

\* line 175: the font keys compared when spans are built
SpanFontKeysNoColor == { "name", "flags", "size", "weight" }
SpanFontKeys == { "name", "flags", "size", "weight", "color" }

\* lines 188-199: the glyph jumps up and to the right of the span
SuperscriptJump(span, char) ==
    /\ 10 * y_start(char.bbox)
          < 10 * y_start(span.bbox) - height(span.bbox) * line_distance_threshold
    /\ 10 * y_end(char.bbox)
          < height(span.bbox) * superscript_height_threshold + 10 * y_start(span.bbox)
    /\ x_start(char.bbox) > x_end(span.bbox)

\* lines 173-221: a new span starts at char
SpanBreakBefore(span, char, sum_char_widths, prev_char_bbox) ==
    \/ FontDiffers(char.font, span.font, SpanFontKeys)
    \/ char.rotation # span.rotation
    \/ Last(span.text) \in { HYPHEN_CHAR, LF }
    \/ SuperscriptJump(span, char)
    \* horizontal_distance > 1.5 * (sum_char_widths / len(chars))
    \/ 2 * horizontal_distance(char.bbox, prev_char_bbox) * Len(span.chars)
          > 3 * sum_char_widths
    \/ overlap_y(char.bbox, prev_char_bbox) = 0
    \* overlap_y < 0.1 * min(heights)
    \/ 10 * overlap_y(char.bbox, span.bbox)
          < Min(height(char.bbox), height(span.bbox))

\* the span grows over the glyph without taking it in
ExtendSpanBboxOnly(span, char) == [ span EXCEPT !.bbox = merge(@, char.bbox) ]
\* lines 223-226
ExtendSpan(span, char) ==
    [ span EXCEPT !.text = Append(@, char.char),
                  !.char_end_idx = char.char_idx,
                  !.bbox = merge(@, char.bbox),
                  !.chars = Append(@, char) ]

\* lines 166-228: spans, sum_char_widths and prev_char_bbox after n glyphs
RECURSIVE SpansUpTo(_, _)
SpansUpTo(cs, n) ==
    IF n = 0
    THEN [ spans |-> << >>, sum_char_widths |-> 0, prev_char_bbox |-> None ]
    ELSE LET st == SpansUpTo(cs, n - 1)
             char == cs[n]
             broken == [ spans |-> Append(st.spans, NewSpan(char)),
                         sum_char_widths |-> width(char.bbox),
                         prev_char_bbox |-> char.bbox ]
         IN  IF st.spans = << >> THEN broken
             ELSE IF SpanBreakBefore(Last(st.spans), char,
                                     st.sum_char_widths, st.prev_char_bbox)
             THEN broken
             ELSE [ spans |-> [st.spans EXCEPT ![Len(st.spans)] = ExtendSpan(@, char)],
                    sum_char_widths |-> st.sum_char_widths + width(char.bbox),
                    prev_char_bbox |-> char.bbox ]

get_spans(cs) == SpansUpTo(cs, Len(cs)).spans

(***************************************************************************)
(* get_lines (pages.py 233-268).                                           *)
(***************************************************************************)
\* lines 237-241: line_break
NewLine(span) == [ spans |-> << span >>, bbox |-> span.bbox, rotation |-> span.rotation ]

\* lines 250-263: a new line starts at span
LineBreakBefore(line, span) ==
    \/ Last(Last(line.spans).text) \in { LF, HYPHEN_CHAR }
    \/ span.rotation # line.rotation
    \/ y_start(span.bbox) > y_end(line.bbox)

\* lines 243-266: the lines built from the first n spans
RECURSIVE LinesUpTo(_, _)
LinesUpTo(ss, n) ==
    IF n = 0 THEN << >>
    ELSE LET ls == LinesUpTo(ss, n - 1)
             span == ss[n]
         IN  IF ls = << >> THEN << NewLine(span) >>
             ELSE IF LineBreakBefore(Last(ls), span)
                  THEN Append(ls, NewLine(span))
                  ELSE [ls EXCEPT ![Len(ls)] =
                           [ @ EXCEPT !.spans = Append(@, span),
                                      !.bbox = merge(@, span.bbox) ]]

get_lines(ss) == LinesUpTo(ss, Len(ss))

(***************************************************************************)
(* assign_scripts (pages.py 39-135).  Heights are in halves of a unit and  *)
(* the two thresholds in tenths, as in get_spans.                          *)
(***************************************************************************)
\* characters str.isdigit() and str.isalnum() accept, and those of the
\* Unicode category Sm
Digits == { "1", "2" }
Alphanumerics == { "a", "b", "e", "x", "m", "p", "l" } \cup Digits
MathSymbols == { "+" }

\* str.strip()
RECURSIVE LStrip(_)
LStrip(t) ==
    IF t = << >> THEN << >>
    ELSE IF Head(t) \in WhitespaceChars THEN LStrip(Tail(t))
    ELSE t

Strip(t) == LStrip(RStrip(t))

\* lines 31-36
is_math_symbol(t) == Len(t) = 1 /\ t[1] \in MathSymbols

\* lines 101-112
SpanTextOkay(span) ==
    LET span_text == Strip(span.text)
    IN  /\ \/ Len(span_text) = 1
           \/ span_text # << >> /\ \A k \in DOMAIN span_text : span_text[k] \in Digits
        /\ \/ span_text # << >> /\ \A k \in DOMAIN span_text : span_text[k] \in Alphanumerics
           \/ is_math_symbol(span_text)

\* lines 52-55 (i counts from 1 here)
IsFirst(line, i) == i = 1 \/ Strip(line.spans[i - 1].text) = << >>
IsLast(line, i) == i = Len(line.spans) \/ Strip(line.spans[i + 1].text) = << >>

\* span_height / max(1, h) <= height_threshold
HeightRatioWithin(span_height, h, height_threshold) ==
    10 * span_height <= height_threshold * Max(2, h)

\* lines 60-72
LineFullheight(line, i, ht) ==
    HeightRatioWithin(height(line.spans[i].bbox), height(line.bbox), ht)
NextFullheight(line, i, ht) ==
    IsLast(line, i)
    \/ HeightRatioWithin(height(line.spans[i].bbox), height(line.spans[i + 1].bbox), ht)
PrevFullheight(line, i, ht) ==
    IsFirst(line, i)
    \/ HeightRatioWithin(height(line.spans[i].bbox), height(line.spans[i - 1].bbox), ht)

\* lines 74-82: the top of span i is higher on the page (y grows downward)
\* than the top of another span of the line, by more than the margin
AboveSkipped(line, i, ldt) == TRUE
Above(line, i, ldt) ==
    \E j \in DOMAIN line.spans :
        /\ j # i
        /\ 10 * y_start(line.spans[i].bbox)
              < 10 * y_start(line.spans[j].bbox) - height(line.spans[j].bbox) * ldt

\* lines 83-86
PrevAbove(line, i) ==
    IsFirst(line, i) \/ y_start(line.spans[i].bbox) < y_start(line.spans[i - 1].bbox)
NextAbove(line, i) ==
    IsLast(line, i) \/ y_start(line.spans[i].bbox) < y_start(line.spans[i + 1].bbox)

\* lines 88-96
Below(line, i, ldt) ==
    \E j \in DOMAIN line.spans :
        /\ j # i
        /\ 10 * y_end(line.spans[i].bbox)
              > 10 * y_end(line.spans[j].bbox) + height(line.spans[j].bbox) * ldt

\* lines 97-100
PrevBelow(line, i) ==
    IsFirst(line, i) \/ y_end(line.spans[i].bbox) > y_end(line.spans[i - 1].bbox)
NextBelow(line, i) ==
    IsLast(line, i) \/ y_end(line.spans[i].bbox) > y_end(line.spans[i + 1].bbox)

\* lines 114-122: the condition of the if
SuperscriptTest(line, i, ht, ldt) ==
    /\ PrevFullheight(line, i, ht) \/ NextFullheight(line, i, ht)
    /\ PrevAbove(line, i) \/ NextAbove(line, i)
    /\ Above(line, i, ldt)
    /\ LineFullheight(line, i, ht)
    /\ SpanTextOkay(line.spans[i])

\* lines 125-133: the condition of the elif
SubscriptTest(line, i, ht, ldt) ==
    /\ PrevFullheight(line, i, ht) \/ NextFullheight(line, i, ht)
    /\ PrevBelow(line, i) \/ NextBelow(line, i)
    /\ Below(line, i, ldt)
    /\ LineFullheight(line, i, ht)
    /\ SpanTextOkay(line.spans[i])

\* line 124: the elif is reached only when the if was not taken
ElifAlwaysReached(superscript_set) == TRUE
ElifReached(superscript_set) == ~superscript_set

\* lines 51-135: span i of the line after its turn of the loop
ScriptedSpan(line, i, ht, ldt) ==
    LET span == line.spans[i]
        sup == SuperscriptTest(line, i, ht, ldt)
    IN  [ span EXCEPT
            !.superscript = IF sup THEN TRUE ELSE @,
            !.subscript = IF ElifReached(sup) /\ SubscriptTest(line, i, ht, ldt)
                          THEN TRUE ELSE @ ]

\* lines 42-49: lines of one span and vertical lines are skipped
ScriptsSkipped(line) ==
    Len(line.spans) < 2 \/ height(line.bbox) > width(line.bbox)

assign_scripts(ls, ht, ldt) ==
    [n \in DOMAIN ls |->
        IF ScriptsSkipped(ls[n]) THEN ls[n]
        ELSE [ ls[n] EXCEPT !.spans =
                 [i \in DOMAIN ls[n].spans |-> ScriptedSpan(ls[n], i, ht, ldt)] ]]

(***************************************************************************)
(* get_blocks (pages.py 271-373).  A center difference is kept doubled     *)
(* (the difference of two center2 coordinates) and a median twenty-fold,   *)
(* so that both are whole numbers.                                         *)
(***************************************************************************)
\* the sequence t with x inserted before its first larger element
RECURSIVE Insert(_, _)
Insert(t, x) ==
    IF t = << >> THEN << x >>
    ELSE IF x <= Head(t) THEN << x >> \o t
    ELSE << Head(t) >> \o Insert(Tail(t), x)

\* sorted(t)
RECURSIVE Sorted(_)
Sorted(t) == IF t = << >> THEN << >> ELSE Insert(Sorted(Tail(t)), Head(t))

\* lines 285-286: 20 * (statistics.median(diffs) if diffs else 0.1), for the
\* doubled differences d2 (0.1 units are 0.2 halves)
Median20(d2) ==
    LET sd == Sorted(d2)
        n == Len(d2)
    IN  IF n = 0 THEN 4
        ELSE IF n % 2 = 1 THEN 10 * sd[(n + 1) \div 2]
        ELSE 5 * (sd[n \div 2] + sd[n \div 2 + 1])

\* lines 277-283: the doubled differences of consecutive centers, axis 1 or 2
CenterDiffs2(ls, axis) ==
    [k \in 1..(Len(ls) - 1) |->
        Abs(center2(ls[k + 1].bbox)[axis] - center2(ls[k].bbox)[axis])]

\* lines 288-290, 319: diff <= median * tolerance_factor, tolerance_factor = 1.5
WithinHalfMedian(diff2, median20) == 20 * diff2 <= median20
StrictlyWithinAllowedGap(diff2, median20) == 20 * diff2 < 3 * median20
WithinAllowedGap(diff2, median20) == 20 * diff2 <= 3 * median20

\* line 341: y_diff < allowed_y_gap * 0.2
BelowFifthOfAllowedGap(diff2, median20) == 100 * diff2 < 3 * median20

\* lines 303-305, 351-353
NewBlock(line) == [ lines |-> << line >>, bbox |-> line.bbox, rotation |-> line.rotation ]

\* lines 308-349 without the exception of lines 324-331
MergesWithoutFirstLineException(current_block, line, median_x_gap20, median_y_gap20) ==
    LET last_line == Last(current_block.lines)
        x_diff2 == Abs(center2(line.bbox)[1] - center2(last_line.bbox)[1])
        y_diff2 == Abs(center2(line.bbox)[2] - center2(last_line.bbox)[2])
        y_close == WithinAllowedGap(y_diff2, median_y_gap20)
    IN  \/ WithinAllowedGap(x_diff2, median_x_gap20) /\ y_close
        \/ x_end(last_line.bbox) > x_end(line.bbox) /\ y_close
        \/ /\ BelowFifthOfAllowedGap(y_diff2, median_y_gap20)
           /\ x_end(last_line.bbox) > x_start(line.bbox)
        \/ IntersectionPctPositive(current_block.bbox, line.bbox)

\* lines 308-349: line is merged into current_block
MergesIntoBlock(current_block, line, median_x_gap20, median_y_gap20) ==
    LET last_line == Last(current_block.lines)
        x_diff2 == Abs(center2(line.bbox)[1] - center2(last_line.bbox)[1])
        y_diff2 == Abs(center2(line.bbox)[2] - center2(last_line.bbox)[2])
        y_close == WithinAllowedGap(y_diff2, median_y_gap20)
    IN  \/ WithinAllowedGap(x_diff2, median_x_gap20) /\ y_close
        \/ /\ Len(current_block.lines) = 1
           /\ x_start(last_line.bbox) > x_start(line.bbox)
           /\ y_close
        \/ x_end(last_line.bbox) > x_end(line.bbox) /\ y_close
        \/ /\ BelowFifthOfAllowedGap(y_diff2, median_y_gap20)
           /\ x_end(last_line.bbox) > x_start(line.bbox)
        \/ IntersectionPctPositive(current_block.bbox, line.bbox)

\* lines 292-296: block_merge
BlockMerge(block, line) ==
    [ block EXCEPT !.lines = Append(@, line), !.bbox = merge(@, line.bbox) ]

\* lines 298-353: the blocks of phase 1 after the first n lines
RECURSIVE BlocksUpTo(_, _, _, _)
BlocksUpTo(ls, n, mx, my) ==
    IF n = 0 THEN << >>
    ELSE LET bs == BlocksUpTo(ls, n - 1, mx, my)
             line == ls[n]
         IN  IF bs = << >> THEN << NewBlock(line) >>
             ELSE IF MergesIntoBlock(Last(bs), line, mx, my)
                  THEN [bs EXCEPT ![Len(bs)] = BlockMerge(@, line)]
                  ELSE Append(bs, NewBlock(line))

\* line 364: two adjacent blocks are merged by the second pass
NeverMerged(prev_block, curr_block) == FALSE
MergedInSecondPass(prev_block, curr_block) ==
    IntersectionPctPositive(prev_block.bbox, curr_block.bbox)

\* lines 355-371: merged_blocks after the first n blocks of phase 1
RECURSIVE MergedUpTo(_, _)
MergedUpTo(bs, n) ==
    IF n = 0 THEN << >>
    ELSE IF n = 1 THEN << bs[1] >>
    ELSE LET merged_blocks == MergedUpTo(bs, n - 1)
             prev_block == Last(merged_blocks)
             curr_block == bs[n]
         IN  IF MergedInSecondPass(prev_block, curr_block)
             THEN [merged_blocks EXCEPT ![Len(merged_blocks)] =
                      [ lines |-> prev_block.lines \o curr_block.lines,
                        bbox |-> merge(prev_block.bbox, curr_block.bbox),
                        rotation |-> prev_block.rotation ]]
             ELSE Append(merged_blocks, curr_block)

\* lines 275-353: phase 1
BlocksPhase1(ls) ==
    BlocksUpTo(ls, Len(ls), Median20(CenterDiffs2(ls, 1)), Median20(CenterDiffs2(ls, 2)))

get_blocks(ls) ==
    IF ls = << >> THEN << >>
    ELSE LET bs == BlocksPhase1(ls) IN MergedUpTo(bs, Len(bs))

(***************************************************************************)
(* The per-page pipeline of get_pages (pages.py 457-471) on a glyph stream *)
(* of get_chars: SpecText.                                                 *)
(***************************************************************************)
\* longest glyph stream
MaxChars == 3

FontBase ==
    [ name |-> "Times", flags |-> 0, size |-> 10, weight |-> 400, color |-> << 0, 0, 0, 255 >> ]
\* another weight
FontBold == [ FontBase EXCEPT !.weight = 700 ]
\* another fill color only
FontRed == [ FontBase EXCEPT !.color = << 255, 0, 0, 255 >> ]

\* glyph boxes, in halves of a unit: the base box; the same box starting half
\* a unit further right (both round to the same box); the box to its right;
\* a box far to the right; a box 5 units below; a raised box to the right
BoxBase == << 0, 4, 4, 12 >>
BoxHalf == << 1, 4, 4, 12 >>
BoxNext == << 4, 4, 8, 12 >>
BoxFar == << 16, 4, 20, 12 >>
BoxBelow == << 0, 14, 4, 22 >>
BoxRaised == << 5, 2, 7, 8 >>

\* a glyph without its index in the stream
Glyph(c, f, r, b) == [ bbox |-> b, char |-> c, rotation |-> r, font |-> f ]

\* the glyphs a stream is drawn from: every style at the base box, and the
\* plain glyph at every other box
GlyphValues ==
    { Glyph(c, f, r, BoxBase) :
        c \in { "a", " " }, f \in { FontBase, FontBold, FontRed }, r \in { 0, 5 } }
    \cup { Glyph("a", FontBase, 0, b) : b \in { BoxHalf, BoxNext, BoxFar, BoxBelow, BoxRaised } }
    \cup { Glyph(LF, FontBase, 0, BoxNext) }

\* chars.py 53-66: get_chars numbers the glyphs by their place in the stream
WithIndex(gs) ==
    [k \in 1..Len(gs) |->
        [ bbox |-> gs[k].bbox, char |-> gs[k].char, rotation |-> gs[k].rotation,
          font |-> gs[k].font, char_idx |-> k - 1 ]]

GlyphStreams == UNION { [1..n -> GlyphValues] : n \in 0..MaxChars }

InitText ==
    /\ tpc = "dedup"
    /\ raw_chars \in { WithIndex(gs) : gs \in GlyphStreams }
    /\ chars = << >>
    /\ spans = << >>
    /\ lines = << >>
    /\ blocks = << >>
    /\ IdlePages
    /\ IdleHyphens
    /\ IdleCli
    /\ IdleTable
    /\ IdleBox
    /\ IdleSort
    /\ IdleImages
    /\ IdleDedup

\* pages.py 457-459
DeduplicateChars ==
    /\ tpc = "dedup"
    /\ chars' = deduplicate_chars(raw_chars)
    /\ tpc' = "spans"
    /\ UNCHANGED << raw_chars, spans, lines, blocks >>
    /\ UNCHANGED << pageVars, hyphenVars, cliVars, tableVars, boxVars, sortVars, imgVars, dedupVars >>

\* pages.py 460-464
GetSpans ==
    /\ tpc = "spans"
    /\ spans' = get_spans(chars)
    /\ tpc' = "lines"
    /\ UNCHANGED << raw_chars, chars, lines, blocks >>
    /\ UNCHANGED << pageVars, hyphenVars, cliVars, tableVars, boxVars, sortVars, imgVars, dedupVars >>

\* pages.py 465
GetLines ==
    /\ tpc = "lines"
    /\ lines' = get_lines(spans)
    /\ tpc' = "scripts"
    /\ UNCHANGED << raw_chars, chars, spans, blocks >>
    /\ UNCHANGED << pageVars, hyphenVars, cliVars, tableVars, boxVars, sortVars, imgVars, dedupVars >>

\* pages.py 466-470: the spans of the lines get their script flags
AssignScripts ==
    /\ tpc = "scripts"
    /\ lines' = assign_scripts(lines, superscript_height_threshold, line_distance_threshold)
    /\ tpc' = "blocks"
    /\ UNCHANGED << raw_chars, chars, spans, blocks >>
    /\ UNCHANGED << pageVars, hyphenVars, cliVars, tableVars, boxVars, sortVars, imgVars, dedupVars >>

\* pages.py 471
GetBlocks ==
    /\ tpc = "blocks"
    /\ blocks' = get_blocks(lines)
    /\ tpc' = "done"
    /\ UNCHANGED << raw_chars, chars, spans, lines >>
    /\ UNCHANGED << pageVars, hyphenVars, cliVars, tableVars, boxVars, sortVars, imgVars, dedupVars >>

NextText ==
    \/ DeduplicateChars
    \/ GetSpans
    \/ GetLines
    \/ AssignScripts
    \/ GetBlocks

SpecText == InitText /\ [][NextText]_vars

(***************************************************************************)
(* get_blocks on the lines of a page, given by their boxes: SpecBlocks.    *)
(***************************************************************************)
\* most lines on the page
MaxLines == 4

\* line boxes: four lines of one row, each reaching further right than the
\* one before (the first two overlap); a line far to the right on the row;
\* a line 5 units below the third; an indented line below; a box over all;
\* a wide line below the others
LineBoxes ==
    { << 0, 0, 20, 4 >>, << 18, 0, 40, 4 >>, << 40, 0, 42, 4 >>, << 42, 0, 44, 4 >>,
      << 60, 0, 62, 4 >>, << 40, 10, 42, 14 >>, << 44, 10, 48, 14 >>, << 0, 2, 50, 12 >>,
      << 0, 14, 50, 18 >> }

\* a line of one span; the span stands for the text at place k of the page
LineAt(b, k) ==
    [ spans |-> << [ char_start_idx |-> k, bbox |-> b ] >>, bbox |-> b, rotation |-> 0 ]

InitBlocks ==
    /\ tpc = "blocks"
    /\ raw_chars = << >>
    /\ chars = << >>
    /\ spans = << >>
    /\ \E n \in 0..MaxLines :
          \E bs \in [1..n -> LineBoxes] : lines = [k \in 1..n |-> LineAt(bs[k], k)]
    /\ blocks = << >>
    /\ IdlePages
    /\ IdleHyphens
    /\ IdleCli
    /\ IdleTable
    /\ IdleBox
    /\ IdleSort
    /\ IdleImages
    /\ IdleDedup

NextBlocks == GetBlocks

SpecBlocks == InitBlocks /\ [][NextBlocks]_vars

(***************************************************************************)
(* Claims about deduplicate_chars and get_spans, checked under SpecText.   *)
(***************************************************************************)
\* two words share the deduplication key: the bbox rounded per coordinate,
\* the text, the rotation and the font name, flags, size and weight
SameDedupKey(w1, w2) ==
    /\ \A j \in 1..4 : Round(w1.bbox[j]) = Round(w2.bbox[j])
    /\ w1.text = w2.text
    /\ w1.rotation = w2.rotation
    /\ w1.font.name = w2.font.name
    /\ w1.font.flags = w2.font.flags
    /\ w1.font.size = w2.font.size
    /\ w1.font.weight = w2.font.weight

\* no earlier word shares the key of word j
FirstWithKey(ws, j) == \A k \in 1..(j - 1) : ~SameDedupKey(ws[k], ws[j])

Deduplicated == tpc \in { "spans", "lines", "scripts", "blocks", "done" }

\* C5: a glyph of the stream is in the output of deduplicate_chars exactly
\* when no earlier provisional word shares the key of its word; the output
\* holds glyphs of the stream only, in their stream order.
C5_FirstWordWithKeySurvives ==
    Deduplicated =>
        LET ws == Words(raw_chars)
        IN  /\ \A j \in 1..Len(ws) : \A n \in 1..Len(ws[j].chars) :
                  (\E p \in 1..Len(chars) : chars[p] = ws[j].chars[n])
                      <=> FirstWithKey(ws, j)
            /\ \A p \in 1..Len(chars) : \E q \in 1..Len(raw_chars) : chars[p] = raw_chars[q]
            /\ \A p \in 1..Len(chars) : \A q \in 1..Len(chars) :
                  p < q => chars[p].char_idx < chars[q].char_idx

\* C5 witness: a word was dropped whose box differs from the box of the
\* earlier word with its key, and a later word survives
C5_Witness ==
    /\ Deduplicated
    /\ LET ws == Words(raw_chars)
       IN  \E k \in 1..Len(ws) : \E j \in (k + 1)..Len(ws) :
              /\ SameDedupKey(ws[k], ws[j])
              /\ ws[k].bbox # ws[j].bbox
              /\ \A p \in 1..Len(chars) : chars[p] # ws[j].chars[1]
    /\ Len(chars) = Len(raw_chars) - 1
    /\ Len(chars) >= 2

SpansBuilt == tpc \in { "lines", "scripts", "blocks", "done" }

AllFontKeys == { "name", "flags", "size", "weight", "color" }

\* C6: the spans cut the glyph stream into consecutive runs; the glyphs of
\* a span share font descriptor (color included) and rotation; and where
\* the font descriptor of a glyph differs from that of the glyph before it,
\* the glyph is the first of a span and the glyph before it the last of the
\* span before (so a stream with a font change gives at least 2 spans).
C6_SpanBreaksAtFontChange ==
    SpansBuilt =>
        /\ Flatten([j \in 1..Len(spans) |-> spans[j].chars]) = chars
        /\ \A j \in 1..Len(spans) : \A n \in 1..Len(spans[j].chars) :
              /\ \A k \in AllFontKeys : spans[j].chars[n].font[k] = spans[j].font[k]
              /\ spans[j].chars[n].rotation = spans[j].rotation
        /\ \A p \in 1..(Len(chars) - 1) :
              (\E k \in AllFontKeys : chars[p + 1].font[k] # chars[p].font[k]) =>
                  /\ Len(spans) >= 2
                  /\ \E j \in 2..Len(spans) :
                        /\ spans[j].chars[1] = chars[p + 1]
                        /\ Last(spans[j - 1].chars) = chars[p]

\* C6 witness: a span of two glyphs is followed by a span that starts at a
\* glyph differing from them in fill color only
C6_Witness ==
    /\ SpansBuilt
    /\ Len(spans) = 2
    /\ Len(spans[1].chars) = 2
    /\ spans[2].font.color # spans[1].font.color
    /\ \A k \in WordFontKeys : spans[2].font[k] = spans[1].font[k]
    /\ spans[2].rotation = spans[1].rotation
    /\ spans[2].bbox = spans[1].bbox

(***************************************************************************)
(* Claims about get_blocks, checked under SpecBlocks.                      *)
(***************************************************************************)
BlocksBuilt == tpc = "done"

\* the number of lines in the blocks before block b
RECURSIVE BlockOffset(_)
BlockOffset(b) == IF b <= 1 THEN 0 ELSE BlockOffset(b - 1) + Len(blocks[b - 1].lines)

\* the block that holds line number p of the page
BlockOfLine(p) ==
    CHOOSE b \in 1..Len(blocks) :
        BlockOffset(b) < p /\ p <= BlockOffset(b) + Len(blocks[b].lines)

\* the lines lie on one row, each starting and ending further right than
\* the line before it
RowOfIncreasingX ==
    /\ Len(lines) >= 2
    /\ \A k \in 1..Len(lines) :
          /\ y_start(lines[k].bbox) = y_start(lines[1].bbox)
          /\ y_end(lines[k].bbox) = y_end(lines[1].bbox)
    /\ \A k \in 1..(Len(lines) - 1) :
          /\ x_start(lines[k].bbox) < x_start(lines[k + 1].bbox)
          /\ x_end(lines[k].bbox) < x_end(lines[k + 1].bbox)

\* no line of the row starts left of the right edge of the line before it
NoHorizontalOverlap ==
    \A k \in 1..(Len(lines) - 1) : x_end(lines[k].bbox) <= x_start(lines[k + 1].bbox)

\* the doubled center gap between line k and line k + 1 of the row is more
\* than 1.5 times the median gap of the row: 2 gap > 3 median
GapExceedsAllowed(k) ==
    LET gaps == CenterDiffs2(lines, 1)
    IN  20 * gaps[k] > 3 * Median20(gaps)

\* on the row, line k + 1 is in the block of line k exactly when the gap
\* between them does not exceed 1.5 times the median gap
RowSplitsAtWideGaps ==
    /\ Flatten([b \in 1..Len(blocks) |-> blocks[b].lines]) = lines
    /\ \A k \in 1..(Len(lines) - 1) :
          IF GapExceedsAllowed(k)
          THEN /\ BlockOfLine(k + 1) = BlockOfLine(k) + 1
               /\ blocks[BlockOfLine(k + 1)].lines[1] = lines[k + 1]
          ELSE BlockOfLine(k + 1) = BlockOfLine(k)

\* C7 as stated: on a row of lines with increasing x, consecutive lines whose
\* gap is within the threshold share a block and a line whose gap from the
\* previous line exceeds 1.5 times the median gap starts a new block.
C7_AsStated ==
    (BlocksBuilt /\ RowOfIncreasingX) => RowSplitsAtWideGaps

\* C7 as amended: the same, on a row whose lines do not overlap horizontally.
C7_RowSplitsAtWideGaps ==
    (BlocksBuilt /\ RowOfIncreasingX /\ NoHorizontalOverlap) => RowSplitsAtWideGaps

\* C7 witness: a row without overlap that holds a gap within the threshold
\* and a gap beyond it
C7_Witness ==
    /\ BlocksBuilt
    /\ RowOfIncreasingX
    /\ NoHorizontalOverlap
    /\ \E k \in 1..(Len(lines) - 1) : GapExceedsAllowed(k)
    /\ \E k \in 1..(Len(lines) - 1) : ~GapExceedsAllowed(k)
    /\ Len(blocks) = 2
    /\ Len(blocks[1].lines) = 2

\* C8: two lines always give one block that holds both, in their order.
C8_TwoLinesOneBlock ==
    (BlocksBuilt /\ Len(lines) = 2) =>
        /\ Len(blocks) = 1
        /\ blocks[1].lines = lines
        /\ blocks[1].bbox = merge(lines[1].bbox, lines[2].bbox)

\* C8 witness: two lines of the same width, the second 5 units (10 halves)
\* below the first, in one block
C8_Witness ==
    /\ BlocksBuilt
    /\ Len(lines) = 2
    /\ x_start(lines[2].bbox) = x_start(lines[1].bbox)
    /\ x_end(lines[2].bbox) = x_end(lines[1].bbox)
    /\ y_start(lines[2].bbox) = y_start(lines[1].bbox) + 10
    /\ y_end(lines[2].bbox) = y_end(lines[1].bbox) + 10
    /\ Len(blocks) = 1
    /\ Len(blocks[1].lines) = 2

(***************************************************************************)
(* extract_text_cli (scripts/extract_text.py 82-124): SpecCli.  The value  *)
(* of --page_range is kept as its comma-separated parts, a part "n" as     *)
(* <<n>> and a part "a-b" as <<a, b>>; every part is well formed.          *)
(***************************************************************************)
\* most pages in the document
MaxDocLen == 3
\* most parts in the value of --page_range
MaxParts == 2

\* the page numbers a part may name
PageNumbers == 0..(MaxDocLen + 1)

RangeParts == { << n >> : n \in PageNumbers } \cup (PageNumbers \X PageNumbers)

RangeStrs == UNION { [1..n -> RangeParts] : n \in 1..MaxParts }

\* line 29: sorted(list(set(page_lst)))
RECURSIVE SortedList(_)
SortedList(set) ==
    IF set = {} THEN << >>
    ELSE LET least == CHOOSE x \in set : \A y \in set : x <= y
         IN  << least >> \o SortedList(set \ { least })

\* lines 23-27: the page numbers one part adds, kept as written:
\* range(int(start), int(end) + 1) or int(i)
PartPages(part) ==
    IF Len(part) = 2 THEN { n \in PageNumbers : part[1] <= n /\ n <= part[2] }
    ELSE { part[1] }

parse_range_str(parts) ==
    SortedList(UNION { PartPages(parts[k]) : k \in 1..Len(parts) })

\* line 94: the pages that are not in 1..doc_len
invalid_pages(pages, n) == SelectSeq(pages, LAMBDA p : ~(1 <= p /\ p <= n))

InitCli ==
    /\ cpc = "call"
    /\ range_str \in { None } \cup { Some(r) : r \in RangeStrs }
    /\ cli_doc_len \in 1..MaxDocLen
    /\ cli_pages = None
    /\ handed = << >>
    /\ IdlePages
    /\ IdleHyphens
    /\ IdleText
    /\ IdleTable
    /\ IdleBox
    /\ IdleSort
    /\ IdleImages
    /\ IdleDedup

\* lines 87-88 and 101: no --page_range, pages stays None
CliNoRange ==
    /\ cpc = "call"
    /\ range_str = None
    /\ cpc' = "extract"
    /\ UNCHANGED << range_str, cli_doc_len, cli_pages, handed >>
    /\ UNCHANGED << pageVars, hyphenVars, textVars, tableVars, boxVars, sortVars, imgVars, dedupVars >>

\* lines 88-95: the range is parsed and every page is in 1..doc_len
CliValidate ==
    /\ cpc = "call"
    /\ range_str # None
    /\ LET pages == parse_range_str(range_str[1])
       IN  /\ invalid_pages(pages, cli_doc_len) = << >>
           /\ cli_pages' = Some(pages)
    /\ cpc' = "extract"
    /\ UNCHANGED << range_str, cli_doc_len, handed >>
    /\ UNCHANGED << pageVars, hyphenVars, textVars, tableVars, boxVars, sortVars, imgVars, dedupVars >>

\* lines 88-99: some page is not in 1..doc_len, click.BadParameter
CliBadParameter ==
    /\ cpc = "call"
    /\ range_str # None
    /\ LET pages == parse_range_str(range_str[1])
       IN  /\ invalid_pages(pages, cli_doc_len) # << >>
           /\ cli_pages' = Some(pages)
    /\ cpc' = "bad_parameter"
    /\ UNCHANGED << range_str, cli_doc_len, handed >>
    /\ UNCHANGED << pageVars, hyphenVars, textVars, tableVars, boxVars, sortVars, imgVars, dedupVars >>

\* lines 101-124, extraction.py 51-60 and pages.py 437-438: page_range=pages
\* reaches get_pages as it is (the whole document when it is None), and
\* get_pages asks the document for pdf.get_page(page_idx) of each entry
CliExtract ==
    /\ cpc = "extract"
    /\ handed' = IF cli_pages = None THEN Range(cli_doc_len) ELSE cli_pages[1]
    /\ cpc' = "done"
    /\ UNCHANGED << range_str, cli_doc_len, cli_pages >>
    /\ UNCHANGED << pageVars, hyphenVars, textVars, tableVars, boxVars, sortVars, imgVars, dedupVars >>

NextCli ==
    \/ CliNoRange
    \/ CliValidate
    \/ CliBadParameter
    \/ CliExtract

SpecCli == InitCli /\ [][NextCli]_vars

(***************************************************************************)
(* Claims about extract_text_cli, checked under SpecCli.                   *)
(***************************************************************************)
\* the page numbers the value of --page_range names
RequestedPages == UNION { PartPages(range_str[1][k]) : k \in 1..Len(range_str[1]) }

\* C11: the page-range expression is 1-based: when extraction runs, every
\* index handed to get_pages lies within the document (0 <= index < doc_len)
\* and the pages extracted are the k-th pages for the requested numbers k,
\* that is the indices k - 1; and a number outside 1..doc_len stops the
\* command before extraction.
C11_OneBasedPagesInBounds ==
    /\ (cpc = "done" /\ range_str # None) =>
          /\ \A i \in 1..Len(handed) : 0 <= handed[i] /\ handed[i] < cli_doc_len
          /\ { handed[i] : i \in 1..Len(handed) } = { k - 1 : k \in RequestedPages }
    /\ (cpc \in { "extract", "done" } /\ range_str # None) =>
          \A k \in RequestedPages : 1 <= k /\ k <= cli_doc_len

(***************************************************************************)
(* table_output (extraction.py 137-158): SpecTable.  A table input is kept *)
(* as the number of tables it holds.                                       *)
(***************************************************************************)
\* most pages in the page range or in the pages the caller passes
MaxTablePages == 2
\* most tables in one table input
MaxTables == 2

TableInputs == UNION { [1..n -> 0..MaxTables] : n \in 0..(MaxTablePages + 1) }

InitTable ==
    /\ tbpc = "call"
    /\ table_inputs \in TableInputs
    /\ \E n \in 0..MaxTablePages :
          \/ pages_arg = None /\ tb_page_range = Range(n)
          \/ pages_arg = Some(get_pages(Range(n))) /\ tb_page_range = << >>
    /\ tb_pages = None
    /\ extracted = << >>
    /\ out_tables = << >>
    /\ IdlePages
    /\ IdleHyphens
    /\ IdleText
    /\ IdleCli
    /\ IdleBox
    /\ IdleSort
    /\ IdleImages
    /\ IdleDedup

\* lines 147-148: no pages were passed, dictionary_output extracts the
\* page range
TableExtract ==
    /\ tbpc = "call"
    /\ pages_arg = None
    /\ extracted' = tb_page_range
    /\ tb_pages' = Some(get_pages(tb_page_range))
    /\ tbpc' = "assert"
    /\ UNCHANGED << table_inputs, pages_arg, tb_page_range, out_tables >>
    /\ UNCHANGED << pageVars, hyphenVars, textVars, cliVars, boxVars, sortVars, imgVars, dedupVars >>

\* line 147: the caller's pages are used
TableUsePages ==
    /\ tbpc = "call"
    /\ pages_arg # None
    /\ tb_pages' = pages_arg
    /\ tbpc' = "assert"
    /\ UNCHANGED << table_inputs, pages_arg, tb_page_range, extracted, out_tables >>
    /\ UNCHANGED << pageVars, hyphenVars, textVars, cliVars, boxVars, sortVars, imgVars, dedupVars >>

\* line 150: the assertion holds
TableAssertPasses ==
    /\ tbpc = "assert"
    /\ Len(tb_pages[1]) = Len(table_inputs)
    /\ tbpc' = "cells"
    /\ UNCHANGED << table_inputs, pages_arg, tb_page_range, tb_pages, extracted, out_tables >>
    /\ UNCHANGED << pageVars, hyphenVars, textVars, cliVars, boxVars, sortVars, imgVars, dedupVars >>

\* line 150: AssertionError
TableAssertFails ==
    /\ tbpc = "assert"
    /\ Len(tb_pages[1]) # Len(table_inputs)
    /\ tbpc' = "assertion_error"
    /\ UNCHANGED << table_inputs, pages_arg, tb_page_range, tb_pages, extracted, out_tables >>
    /\ UNCHANGED << pageVars, hyphenVars, textVars, cliVars, boxVars, sortVars, imgVars, dedupVars >>

\* lines 154-157: the next page and its table input
TableCellsOfPage ==
    /\ tbpc = "cells"
    /\ Len(out_tables) < Len(tb_pages[1])
    /\ out_tables' = Append(out_tables, table_inputs[Len(out_tables) + 1])
    /\ UNCHANGED << tbpc, table_inputs, pages_arg, tb_page_range, tb_pages, extracted >>
    /\ UNCHANGED << pageVars, hyphenVars, textVars, cliVars, boxVars, sortVars, imgVars, dedupVars >>

\* line 158
TableReturn ==
    /\ tbpc = "cells"
    /\ Len(out_tables) = Len(tb_pages[1])
    /\ tbpc' = "done"
    /\ UNCHANGED << table_inputs, pages_arg, tb_page_range, tb_pages, extracted, out_tables >>
    /\ UNCHANGED << pageVars, hyphenVars, textVars, cliVars, boxVars, sortVars, imgVars, dedupVars >>

NextTable ==
    \/ TableExtract
    \/ TableUsePages
    \/ TableAssertPasses
    \/ TableAssertFails
    \/ TableCellsOfPage
    \/ TableReturn

SpecTable == InitTable /\ [][NextTable]_vars

(***************************************************************************)
(* Claims about table_output, checked under SpecTable.                     *)
(***************************************************************************)
\* C12: table_output fails whenever the number of table inputs differs from
\* the number of pages (it never pairs a page with a table input nor
\* returns then), and when it fails for the mismatch no page has been
\* processed by the extraction.
C12_MismatchFatalBeforeProcessing ==
    /\ (tbpc \in { "cells", "done" }) => Len(tb_pages[1]) = Len(table_inputs)
    /\ tbpc = "assertion_error" => extracted = << >>

(***************************************************************************)
(* Floating point.  Coordinates are floats; the model keeps them as whole  *)
(* numbers of a grid unit and gives them a mantissa of MantissaBits bits,  *)
(* so that a difference can need rounding as it does for Python floats:    *)
(* a number below 2^MantissaBits is exact, a larger one is rounded to the  *)
(* nearest number the mantissa can hold, a tie to the even mantissa.       *)
(***************************************************************************)
MantissaBits == 3

RECURSIVE Pow2(_)
Pow2(n) == IF n <= 0 THEN 1 ELSE 2 * Pow2(n - 1)

\* the distance between neighbouring floats at the magnitude of n
RECURSIVE UlpFrom(_, _)
UlpFrom(n, u) == IF Abs(n) < u * Pow2(MantissaBits) THEN u ELSE UlpFrom(n, 2 * u)
Ulp(n) == UlpFrom(n, 1)

\* the float nearest to the number n
Fl(n) ==
    LET u == Ulp(n)
        lo == (n \div u) * u
    IN  IF n = lo THEN n
        ELSE IF 2 * (n - lo) < u THEN lo
        ELSE IF 2 * (n - lo) > u THEN lo + u
        ELSE IF (lo \div u) % 2 = 0 THEN lo
        ELSE lo + u

(***************************************************************************)
(* Bbox.inside, Bbox.rotate (schema.py), transform_bbox and the clipping   *)
(* of remove_wrong_bboxes (pdf/utils.py), and the page bbox of             *)
(* dictionary_output (extraction.py 128-133).                              *)
(***************************************************************************)
\* schema.py 58-65
inside(a, b) ==
    /\ x_start(a) >= x_start(b)
    /\ x_end(a) <= x_end(b)
    /\ y_start(a) >= y_start(b)
    /\ y_end(a) <= y_end(b)

\* schema.py 119: rotation not in [0, 90, 180, 270] raises ValueError
AnyQuarterTurn(r) == r % 90 = 0
ValidRotation(r) == r \in { 0, 90, 180, 270 }

\* schema.py 143-148
MinMaxSkipped(b) == b
MinMax(b) == << Min(b[1], b[3]), Min(b[2], b[4]), Max(b[1], b[3]), Max(b[2], b[4]) >>

\* schema.py 122-150, for a valid rotation
RotateByWidth(b, w, h, r) ==
    IF r = 0 THEN b
    ELSE IF r = 90 THEN MinMax(<< Fl(w - b[4]), b[1], Fl(w - b[2]), b[3] >>)
    ELSE IF r = 180 THEN MinMax(<< Fl(w - b[3]), Fl(h - b[4]), Fl(w - b[1]), Fl(h - b[2]) >>)
    ELSE MinMax(<< b[2], Fl(w - b[3]), b[4], Fl(w - b[1]) >>)
rotate(b, w, h, r) ==
    IF r = 0 THEN b
    ELSE IF r = 90 THEN MinMax(<< Fl(h - b[4]), b[1], Fl(h - b[2]), b[3] >>)
    ELSE IF r = 180 THEN MinMax(<< Fl(w - b[3]), Fl(h - b[4]), Fl(w - b[1]), Fl(h - b[2]) >>)
    ELSE MinMax(<< b[2], Fl(w - b[3]), b[4], Fl(w - b[1]) >>)

\* pdf/utils.py 102-103: math.ceil(abs(...)) of a whole number
PageWidth(page_bbox) == Abs(Fl(page_bbox[3] - page_bbox[1]))
PageHeight(page_bbox) == Abs(Fl(page_bbox[4] - page_bbox[2]))

\* pdf/utils.py 92-122
transform_bbox(page_bbox, page_rotation, bbox) ==
    LET w == PageWidth(page_bbox)
        h == PageHeight(page_bbox)
        cx_start == Fl(bbox[1] - page_bbox[1])
        cy_start == Fl(bbox[2] - page_bbox[2])
        cx_end == Fl(bbox[3] - page_bbox[1])
        cy_end == Fl(bbox[4] - page_bbox[2])
        ty_start == Fl(h - cy_start)
        ty_end == Fl(h - cy_end)
    IN  rotate(MinMax(<< cx_start, ty_start, cx_end, ty_end >>), w, h, page_rotation)

\* the box as it is, neither clipped nor dropped
ClipSkipped(b, tpb) == Some(b)
\* pdf/utils.py 61-87, for one box: the box clipped to the page, None when
\* the clipped box is inverted or not within the page
Clip(b, tpb) ==
    LET new_pos == << Max(b[1], tpb[1]), Max(b[2], tpb[2]), Min(b[3], tpb[3]), Min(b[4], tpb[4]) >>
    IN  IF new_pos[1] > new_pos[3] \/ new_pos[2] > new_pos[4] THEN None
        ELSE IF inside(new_pos, tpb) THEN Some(new_pos)
        ELSE None

\* extraction.py 128-133: the bbox of a page, as dictionary_output leaves it
PageBboxOut(page_bbox, page_rotation) ==
    IF page_rotation = 90 \/ page_rotation = 270
    THEN << page_bbox[3], page_bbox[4], page_bbox[1], page_bbox[2] >>
    ELSE page_bbox

(***************************************************************************)
(* The Bbox operations on boxes drawn from a small grid: SpecBbox.         *)
(***************************************************************************)
\* a coordinate too large for every difference with it to be exact
BigCoord == Pow2(MantissaBits) + 2

\* coordinates of the boxes that are rotated, transformed and clipped
Coords == { 0, 1, 3, BigCoord }
\* coordinates of the boxes that are merged and measured
PairCoords == { 0, 1, 3 }

\* page widths and heights
PageSizes == { Pow2(MantissaBits) - 2, BigCoord }

\* the rotation values tried
Rotations == { 0, 90, 180, 270, 45, 360, 0 - 90 }

Boxes(cs) == cs \X cs \X cs \X cs

WellOrdered(b) == x_start(b) <= x_end(b) /\ y_start(b) <= y_end(b)

OrderedBoxes(cs) == { b \in Boxes(cs) : WellOrdered(b) }

\* what page.get_bbox() gives: the page at the origin or away from it
PageBoxes ==
    { << o, o, o + w, o + h >> : o \in { 0, 2 }, w \in PageSizes, h \in PageSizes }

InitBbox ==
    /\ bpc = "call"
    /\ \/ /\ op \in { "merge", "horizontal_distance" }
          /\ box_a \in Boxes(PairCoords)
          /\ box_b \in Boxes(PairCoords)
          /\ page_width = 0
          /\ page_height = 0
          /\ rotation = 0
       \/ /\ op = "rotate"
          /\ box_a \in OrderedBoxes(Coords)
          /\ box_b = << 0, 0, 0, 0 >>
          /\ page_width \in PageSizes
          /\ page_height \in PageSizes
          /\ rotation \in Rotations
       \/ /\ op = "transform_bbox"
          /\ box_a \in Boxes(Coords)
          /\ box_b \in PageBoxes
          /\ page_width = 0
          /\ page_height = 0
          /\ rotation \in { 0, 90, 180, 270 }
       \/ /\ op = "clip"
          /\ box_a \in OrderedBoxes(Coords)
          /\ box_b \in PageBoxes
          /\ page_width = 0
          /\ page_height = 0
          /\ rotation \in { 0, 90, 180, 270 }
       \/ /\ op = "page_bbox"
          /\ box_a = << 0, 0, 0, 0 >>
          /\ box_b \in PageBoxes
          /\ page_width = 0
          /\ page_height = 0
          /\ rotation \in { 0, 90, 180, 270 }
    /\ box_out = None
    /\ turns = 0
    /\ distance = None
    /\ IdlePages
    /\ IdleHyphens
    /\ IdleText
    /\ IdleCli
    /\ IdleTable
    /\ IdleSort
    /\ IdleImages
    /\ IdleDedup

\* schema.py 67-75
BboxMerge ==
    /\ bpc = "call"
    /\ op = "merge"
    /\ box_out' = Some(merge(box_a, box_b))
    /\ bpc' = "done"
    /\ UNCHANGED << op, box_a, box_b, page_width, page_height, rotation, turns, distance >>
    /\ UNCHANGED << pageVars, hyphenVars, textVars, cliVars, tableVars, sortVars, imgVars, dedupVars >>

\* schema.py 87-96
BboxHorizontalDistance ==
    /\ bpc = "call"
    /\ op = "horizontal_distance"
    /\ distance' = Some(horizontal_distance(box_a, box_b))
    /\ bpc' = "done"
    /\ UNCHANGED << op, box_a, box_b, page_width, page_height, rotation, box_out, turns >>
    /\ UNCHANGED << pageVars, hyphenVars, textVars, cliVars, tableVars, sortVars, imgVars, dedupVars >>

\* schema.py 118-150: rotate, applied to the box the last rotate returned
\* (to box_a the first time), up to four times
BboxRotate ==
    /\ bpc = "call"
    /\ op = "rotate"
    /\ ValidRotation(rotation)
    /\ turns < 4
    /\ box_out' = Some(rotate(IF box_out = None THEN box_a ELSE box_out[1],
                              page_width, page_height, rotation))
    /\ turns' = turns + 1
    /\ bpc' = IF turns = 3 THEN "done" ELSE "call"
    /\ UNCHANGED << op, box_a, box_b, page_width, page_height, rotation, distance >>
    /\ UNCHANGED << pageVars, hyphenVars, textVars, cliVars, tableVars, sortVars, imgVars, dedupVars >>

\* schema.py 119-120: ValueError
BboxRotateRaises ==
    /\ bpc = "call"
    /\ op = "rotate"
    /\ ~ValidRotation(rotation)
    /\ bpc' = "value_error"
    /\ UNCHANGED << op, box_a, box_b, page_width, page_height, rotation, box_out, turns, distance >>
    /\ UNCHANGED << pageVars, hyphenVars, textVars, cliVars, tableVars, sortVars, imgVars, dedupVars >>

\* pdf/utils.py 92-122: box_a is the bbox, box_b the page's bbox
BboxTransform ==
    /\ bpc = "call"
    /\ op = "transform_bbox"
    /\ box_out' = Some(transform_bbox(box_b, rotation, box_a))
    /\ bpc' = "done"
    /\ UNCHANGED << op, box_a, box_b, page_width, page_height, rotation, turns, distance >>
    /\ UNCHANGED << pageVars, hyphenVars, textVars, cliVars, tableVars, sortVars, imgVars, dedupVars >>

\* pdf/utils.py 56-87: box_a is a transformed box, box_b the page's bbox
\* (page_bbox and page.get_bbox() alike)
BboxClip ==
    /\ bpc = "call"
    /\ op = "clip"
    /\ box_out' = Clip(box_a, transform_bbox(box_b, rotation, box_b))
    /\ bpc' = "done"
    /\ UNCHANGED << op, box_a, box_b, page_width, page_height, rotation, turns, distance >>
    /\ UNCHANGED << pageVars, hyphenVars, textVars, cliVars, tableVars, sortVars, imgVars, dedupVars >>

\* extraction.py 128-133: box_b is the page's bbox
BboxOfPage ==
    /\ bpc = "call"
    /\ op = "page_bbox"
    /\ box_out' = Some(PageBboxOut(box_b, rotation))
    /\ bpc' = "done"
    /\ UNCHANGED << op, box_a, box_b, page_width, page_height, rotation, turns, distance >>
    /\ UNCHANGED << pageVars, hyphenVars, textVars, cliVars, tableVars, sortVars, imgVars, dedupVars >>

NextBbox ==
    \/ BboxMerge
    \/ BboxHorizontalDistance
    \/ BboxRotate
    \/ BboxRotateRaises
    \/ BboxTransform
    \/ BboxClip
    \/ BboxOfPage

SpecBbox == InitBbox /\ [][NextBbox]_vars

(***************************************************************************)
(* Claims about the Bbox operations, checked under SpecBbox.               *)
(***************************************************************************)
\* the operations that construct a box, called on well-ordered boxes (the
\* bbox handed to transform_bbox is free: it is ordered there)
ConstructsBox ==
    /\ op \in { "merge", "rotate", "transform_bbox", "clip", "page_bbox" }
    /\ op = "merge" => WellOrdered(box_a) /\ WellOrdered(box_b)
    /\ box_out # None

\* C13: every box that transform_bbox, rotate, merge, the clipping of
\* remove_wrong_bboxes and the page-bbox permutation of dictionary_output
\* construct satisfies x_start <= x_end and y_start <= y_end.
C13_ConstructedBoxesWellOrdered ==
    ConstructsBox => WellOrdered(box_out[1])

\* the same without the page bbox of dictionary_output
C13_ExceptPageBbox ==
    (ConstructsBox /\ op # "page_bbox") => WellOrdered(box_out[1])

(***************************************************************************)
(* sort_blocks (postprocessing.py 85-101): SpecSort.  The coordinates of a *)
(* block are counted in eighths of a unit here, so that top_y / 1.25 is a  *)
(* whole number of tenths and can lie exactly between two whole numbers.   *)
(***************************************************************************)
\* most blocks on the page
MaxBlocks == 3

\* line 89: round(block["bbox"][1] / tolerance) * tolerance for the default
\* tolerance 1.25, in eighths of a unit: round() goes to the nearest whole
\* number and from a tie to the even one
GroupKeyFloor(block) == 10 * (block.bbox[2] \div 10)
GroupKey(block) ==
    LET q == block.bbox[2] \div 10
        r == block.bbox[2] % 10
    IN  10 * (IF r < 5 THEN q
              ELSE IF r > 5 THEN q + 1
              ELSE IF q % 2 = 0 THEN q
              ELSE q + 1)

\* line 98: sorted() is stable; the block goes behind the blocks of the
\* group that do not start further right
RECURSIVE InsertBeforeEqualX(_, _)
InsertBeforeEqualX(group, block) ==
    IF group = << >> THEN << block >>
    ELSE IF block.bbox[1] <= Head(group).bbox[1] THEN << block >> \o group
    ELSE << Head(group) >> \o InsertBeforeEqualX(Tail(group), block)
RECURSIVE InsertByX(_, _)
InsertByX(group, block) ==
    IF group = << >> THEN << block >>
    ELSE IF block.bbox[1] < Head(group).bbox[1] THEN << block >> \o group
    ELSE << Head(group) >> \o InsertByX(Tail(group), block)

\* line 98: sorted(group, key=lambda x: x["bbox"][0])
RECURSIVE SortedGroup(_)
SortedGroup(group) ==
    IF group = << >> THEN << >>
    ELSE InsertByX(SortedGroup(SubSeq(group, 1, Len(group) - 1)), group[Len(group)])

\* lines 87-92: the blocks of one group, in the order of the list
VerticalGroup(bs, key) == SelectSeq(bs, LAMBDA b : GroupKey(b) = key)

\* lines 95-101
sort_blocks(bs) ==
    LET keys == SortedList({ GroupKey(bs[k]) : k \in 1..Len(bs) })
    IN  Flatten([g \in 1..Len(keys) |-> SortedGroup(VerticalGroup(bs, keys[g]))])

\* the boxes of the blocks: starting at the left or further right; with the
\* top at 0.5, 0.625 (a tie, to row 0), 0.75 and 1.875 (a tie, to row 2)
BlockBoxes ==
    { << x, y, x + 16, y + 8 >> : x \in { 0, 8 }, y \in { 4, 5, 6, 15 } }

\* a block; k stands for its lines
BlockAt(b, k) == [ bbox |-> b, lines |-> << k >> ]

InitSort ==
    /\ spc = "call"
    /\ \E n \in 0..MaxBlocks :
          \E bs \in [1..n -> BlockBoxes] : sort_in = [k \in 1..n |-> BlockAt(bs[k], k)]
    /\ sort_out = << >>
    /\ sort_again = << >>
    /\ IdlePages
    /\ IdleHyphens
    /\ IdleText
    /\ IdleCli
    /\ IdleTable
    /\ IdleBox
    /\ IdleImages
    /\ IdleDedup

\* extraction.py 126, postprocessing.py 107: page["blocks"] = sort_blocks(page["blocks"])
SortBlocks ==
    /\ spc = "call"
    /\ sort_out' = sort_blocks(sort_in)
    /\ spc' = "again"
    /\ UNCHANGED << sort_in, sort_again >>
    /\ UNCHANGED << pageVars, hyphenVars, textVars, cliVars, tableVars, boxVars, imgVars, dedupVars >>

\* sort_blocks called on the blocks it returned
SortBlocksAgain ==
    /\ spc = "again"
    /\ sort_again' = sort_blocks(sort_out)
    /\ spc' = "done"
    /\ UNCHANGED << sort_in, sort_out >>
    /\ UNCHANGED << pageVars, hyphenVars, textVars, cliVars, tableVars, boxVars, imgVars, dedupVars >>

NextSort ==
    \/ SortBlocks
    \/ SortBlocksAgain

SpecSort == InitSort /\ [][NextSort]_vars

(***************************************************************************)
(* Claims about sort_blocks, checked under SpecSort.                       *)
(***************************************************************************)
\* the row of a block as the claims state it: round(top_y / 1.25) * 1.25,
\* in eighths of a unit (10 eighths are 1.25)
RowKey(block) ==
    LET y == block.bbox[2]
    IN  10 * (CHOOSE k \in ((y \div 10) - 1)..((y \div 10) + 1) :
                 \/ 2 * Abs(y - 10 * k) < 10
                 \/ 2 * Abs(y - 10 * k) = 10 /\ k % 2 = 0)

\* block a is not behind block b in reading order: an earlier row, or the
\* same row and not further right
InOrder(a, b) ==
    \/ RowKey(a) < RowKey(b)
    \/ RowKey(a) = RowKey(b) /\ a.bbox[1] <= b.bbox[1]

IsSorted(bs) == \A i \in 1..Len(bs) : \A j \in (i + 1)..Len(bs) : InOrder(bs[i], bs[j])

\* C14: sort_blocks(sort_blocks(B)) = sort_blocks(B), and a list that is in
\* sorted order is returned in the same order.
C14_SortBlocksIdempotent ==
    /\ spc = "done" => sort_again = sort_out
    /\ (spc \in { "again", "done" } /\ IsSorted(sort_in)) => sort_out = sort_in

\* C14 witness: sorting moved a block, the list holds two blocks of one row
\* with the same left edge, and sorting the result again has been done
C14_Witness ==
    /\ spc = "done"
    /\ sort_out # sort_in
    /\ sort_again = sort_out
    /\ \E i \in 1..Len(sort_in) : \E j \in (i + 1)..Len(sort_in) :
          /\ RowKey(sort_in[i]) = RowKey(sort_in[j])
          /\ sort_in[i].bbox[1] = sort_in[j].bbox[1]

\* C15: the output of sort_blocks is a permutation of its input, ordered by
\* ascending row key and, within a row key, by ascending left x edge.
C15_SortedPermutation ==
    spc \in { "again", "done" } =>
        /\ Len(sort_out) = Len(sort_in)
        /\ \A k \in 1..Len(sort_in) :
              Cardinality({ i \in 1..Len(sort_out) : sort_out[i] = sort_in[k] }) = 1
        /\ IsSorted(sort_out)

\* C15 witness: a block of a later row came first, a block of its row
\* further left came behind it, and a top lay exactly between two rows
C15_Witness ==
    /\ spc = "again"
    /\ Len(sort_in) = 3
    /\ RowKey(sort_in[1]) > RowKey(sort_in[3])
    /\ RowKey(sort_in[1]) = RowKey(sort_in[2])
    /\ sort_in[1].bbox[1] > sort_in[2].bbox[1]
    /\ \E k \in 1..3 : sort_in[k].bbox[2] % 10 = 5
    /\ sort_out = << sort_in[3], sort_in[2], sort_in[1] >>

\* the x-ranges of the boxes a and b share a point
XRangesOverlap(a, b) == Max(x_start(a), x_start(b)) <= Min(x_end(a), x_end(b))

\* the gap between the right edge of the left box and the left edge of the
\* right box, for x-ranges that do not overlap
EdgeGap(a, b) == Max(x_start(a), x_start(b)) - Min(x_end(a), x_end(b))

\* C16: for well-ordered boxes a and b, a.horizontal_distance(b) is 0 when
\* the x-ranges of a and b overlap and the gap between their nearest
\* vertical edges otherwise.
C16_DistanceIsEdgeGap ==
    (bpc = "done" /\ op = "horizontal_distance" /\ WellOrdered(box_a) /\ WellOrdered(box_b)) =>
        distance[1] = IF XRangesOverlap(box_a, box_b) THEN 0 ELSE EdgeGap(box_a, box_b)

\* the same for a box that does not start left of the other box
C16_WhenNotStartingLeft ==
    (bpc = "done" /\ op = "horizontal_distance" /\ WellOrdered(box_a) /\ WellOrdered(box_b)
        /\ x_start(box_a) >= x_start(box_b)) =>
        distance[1] = IF XRangesOverlap(box_a, box_b) THEN 0 ELSE EdgeGap(box_a, box_b)

\* rotate has been applied n times with the rotation r
Rotated(r, n) == op = "rotate" /\ rotation = r /\ turns = n /\ box_out # None

\* C17 as stated: rotate(w, h, 0) returns a box equal to the original, and
\* rotate(w, h, 90) applied four times in a row returns the original box.
C17_AsStated ==
    /\ Rotated(0, 1) => box_out[1] = box_a
    /\ Rotated(90, 4) => box_out[1] = box_a

\* every difference page_height - coordinate of the box is a float
ExactDifferences ==
    \A j \in 1..4 : Fl(page_height - box_a[j]) = page_height - box_a[j]

\* C17 as amended: rotate(w, h, 0) returns a box equal to the original, and
\* rotate(w, h, 90) applied four times returns the original box within
\* floating tolerance: every coordinate (none is negative) is off by at most
\* the distance between neighbouring floats at the larger of the page height
\* and the coordinate, and by nothing when the differences
\* page_height - coordinate are exact.
C17_RotateRoundTrip ==
    /\ Rotated(0, 1) => box_out[1] = box_a
    /\ Rotated(90, 4) =>
          /\ \A j \in 1..4 :
                Abs(box_out[1][j] - box_a[j]) <= Ulp(Max(page_height, box_a[j]))
          /\ ExactDifferences => box_out[1] = box_a

\* C17 witness: four quarter turns on a page that is not square brought a
\* box of positive area and different sides back exactly
C17_Witness ==
    /\ Rotated(90, 4)
    /\ page_width # page_height
    /\ area(box_a) > 0
    /\ width(box_a) # height(box_a)
    /\ ExactDifferences
    /\ box_out[1] = box_a

\* C18: merge(a, b) is the componentwise min/max rectangle: it contains a
\* and b, every rectangle that contains a and b contains it, and
\* merge(a, b) = merge(b, a).
C18_MergeIsLeastCover ==
    (bpc = "done" /\ op = "merge") =>
        LET m == box_out[1]
        IN  /\ m = << Min(box_a[1], box_b[1]), Min(box_a[2], box_b[2]),
                      Max(box_a[3], box_b[3]), Max(box_a[4], box_b[4]) >>
            /\ inside(box_a, m)
            /\ inside(box_b, m)
            /\ \A r \in Boxes(PairCoords) :
                  (inside(box_a, r) /\ inside(box_b, r)) => inside(m, r)
            /\ m = merge(box_b, box_a)

\* C18 witness: two well-ordered boxes of positive area, neither inside the
\* other, merged into a box that is neither of them
C18_Witness ==
    /\ bpc = "done"
    /\ op = "merge"
    /\ WellOrdered(box_a) /\ area(box_a) > 0
    /\ WellOrdered(box_b) /\ area(box_b) > 0
    /\ ~inside(box_a, box_b)
    /\ ~inside(box_b, box_a)
    /\ box_out[1] # box_a
    /\ box_out[1] # box_b

\* C19: a call of rotate raises for every rotation outside {0, 90, 180, 270}
\* (no box is returned) and returns a box without an error for every
\* rotation inside it.
C19_RotateRaisesOutsideQuarterTurns ==
    [][ (op = "rotate" /\ bpc = "call") =>
            IF rotation \in { 0, 90, 180, 270 }
            THEN bpc' # "value_error" /\ box_out' # None
            ELSE bpc' = "value_error" /\ box_out' = None ]_vars

\* C19 witness: rotate raised for a full turn, a multiple of 90 that is not
\* in the list
C19_Witness ==
    /\ op = "rotate"
    /\ bpc = "value_error"
    /\ rotation = 360
    /\ box_out = None

(***************************************************************************)
(* A further claim about _get_pages, checked under SpecPages.              *)
(***************************************************************************)
\* a worker count is requested and min(requested, floor(pages / threshold))
\* is greater than 1
WorkersJustified ==
    /\ workers_arg # None
    /\ workers_arg[1] > 1
    /\ Len(PageRangeObj) \div threshold > 1

\* C20: the step _get_pages takes from its start submits chunks to a pool of
\* workers only when a worker count is requested and
\* min(requested, floor(page count / WORKER_PAGE_THRESHOLD)) > 1; in every
\* other case (no request, 0, 1, a negative request, too few pages) no pool
\* is made and the whole page list goes through get_pages in the caller,
\* whose pages are returned unless get_pages itself fails on a page.
C20_WorkersOnlyWhenJustified ==
    [][ pc = "start" =>
            IF WorkersJustified
            THEN /\ pc' = "map"
                 /\ Len(page_range_chunks') > 1
            ELSE /\ page_range_chunks' = << >>
                 /\ futures' = << >>
                 /\ \/ pc' = "returned" /\ ret' = Some(get_pages(PageRangeObj))
                    \/ pc' = "raised" /\ ret' = None ]_vars

\* C20 witness: two workers were requested for a list that is too short for
\* the threshold, and the caller has returned every page itself
C20_Witness ==
    /\ pc = "returned"
    /\ workers_arg # None
    /\ workers_arg[1] >= 2
    /\ threshold = 2
    /\ Len(page_range_obj) = 3
    /\ page_range_chunks = << >>
    /\ ret = Some(get_pages(page_range_obj))

(***************************************************************************)
(* The second pass of get_blocks.                                          *)
(***************************************************************************)
\* the boxes a and b share a region of positive area
PositiveIntersection(a, b) == intersection_area(a, b) > 0

\* C21: in the list get_blocks returns, no two adjacent blocks have bounding
\* boxes whose intersection has positive area
C21_AdjacentBlocksDisjoint ==
    BlocksBuilt =>
        \A k \in 1..(Len(blocks) - 1) :
            ~PositiveIntersection(blocks[k].bbox, blocks[k + 1].bbox)

\* the second pass compares a block of phase 1 with the merged block before
\* it at the time it is reached: what it does guarantee is that the first
\* phase-1 block of every returned block is disjoint from the block before
C21_FirstPartDisjoint ==
    BlocksBuilt =>
        LET bs == BlocksPhase1(lines)
        IN  \A k \in 1..(Len(blocks) - 1) :
                \E p \in 1..Len(bs) :
                    /\ bs[p].lines[1] = blocks[k + 1].lines[1]
                    /\ ~PositiveIntersection(blocks[k].bbox, bs[p].bbox)

(***************************************************************************)
(* The exception for the first line of a block (pages.py 323-331).         *)
(***************************************************************************)
MedianXGap20 == Median20(CenterDiffs2(lines, 1))
MedianYGap20 == Median20(CenterDiffs2(lines, 2))

\* the blocks of phase 1 when line n is reached, and after it
OpenBlocks(n) == BlocksUpTo(lines, n - 1, MedianXGap20, MedianYGap20)
BlocksAfter(n) == BlocksUpTo(lines, n, MedianXGap20, MedianYGap20)

\* line n would be the second line of the open block, and its center is
\* within the allowed y gap of the center of the block's first line
SecondLineWithinYGap(n) ==
    /\ n \in 2..Len(lines)
    /\ Len(Last(OpenBlocks(n)).lines) = 1
    /\ WithinAllowedGap(
           Abs(center2(lines[n].bbox)[2] - center2(lines[n - 1].bbox)[2]), MedianYGap20)

\* line n is merged into the open block
MergedInPhase1(n) == Len(BlocksAfter(n)) = Len(OpenBlocks(n))

\* C22 as stated: the second line is the one that starts further right
C22_AsStated ==
    BlocksBuilt =>
        \A n \in 2..Len(lines) :
            SecondLineWithinYGap(n)
            /\ x_start(lines[n].bbox) > x_start(lines[n - 1].bbox)
            => MergedInPhase1(n)

\* C22: in phase 1 of get_blocks a line that would be the open block's
\* second line, whose center is within the allowed y gap of the first
\* line's center, and that starts further left than the first line (the
\* first line is the indented one) is merged into the open block
C22_FirstLineIndented ==
    BlocksBuilt =>
        \A n \in 2..Len(lines) :
            SecondLineWithinYGap(n)
            /\ x_start(lines[n - 1].bbox) > x_start(lines[n].bbox)
            => MergedInPhase1(n)

\* a second line left of an indented first line that no other rule of
\* phase 1 merges
C22_Witness ==
    /\ BlocksBuilt
    /\ \E n \in 2..Len(lines) :
          /\ SecondLineWithinYGap(n)
          /\ x_start(lines[n - 1].bbox) > x_start(lines[n].bbox)
          /\ MergedInPhase1(n)
          /\ ~MergesWithoutFirstLineException(
                 Last(OpenBlocks(n)), lines[n], MedianXGap20, MedianYGap20)

(***************************************************************************)
(* The join mode of handle_hyphens, one character at a time.               *)
(***************************************************************************)
\* the place of the last marker among the first n characters of t, or 0
RECURSIVE LastMarker(_, _)
LastMarker(t, n) ==
    IF n <= 0 THEN 0
    ELSE IF t[n] = HYPHEN_CHAR THEN n
    ELSE LastMarker(t, n - 1)

\* a character other than a line break has been read since the last marker:
\* the fragment after the marker has begun
FragmentBegun ==
    \E j \in (LastMarker(text, text_i) + 1)..text_i : text[j] \notin LINE_BREAKS

\* the character the step reads
CurrentChar == text[text_i + 1]

\* the step reads a character other than a marker while a marker is pending
StepAfterMarker == HyphensStep /\ found_hyphen /\ CurrentChar # HYPHEN_CHAR

\* the separator is emitted as a single newline and normal copying resumes
EmitsNewline == new_text' = Append(RStrip(new_text), LF) /\ ~found_hyphen'

\* C23: in join mode, after a marker, the line breaks that follow it are
\* discarded, the characters after them are appended to the fragment before
\* the marker, and the first space or line break after those characters is
\* emitted as a single newline, after which characters are copied as they
\* are
C23_JoinStopsAtSeparator ==
    [][ /\ StepAfterMarker =>
             IF CurrentChar \in SPACES THEN EmitsNewline
             ELSE IF CurrentChar \in LINE_BREAKS
             THEN IF FragmentBegun THEN EmitsNewline
                  ELSE new_text' = new_text /\ found_hyphen'
             ELSE new_text' = Append(new_text, CurrentChar) /\ found_hyphen'
        /\ (HyphensStep /\ ~found_hyphen /\ CurrentChar # HYPHEN_CHAR) =>
             new_text' = Append(new_text, CurrentChar) /\ ~found_hyphen' ]_vars

\* the same with a space as the only separator that ends the fragment:
\* every line break is discarded while a marker is pending
C23_JoinStopsAtSpace ==
    [][ /\ StepAfterMarker =>
             IF CurrentChar \in SPACES THEN EmitsNewline
             ELSE IF CurrentChar \in LINE_BREAKS
             THEN new_text' = new_text /\ found_hyphen'
             ELSE new_text' = Append(new_text, CurrentChar) /\ found_hyphen'
        /\ (HyphensStep /\ ~found_hyphen /\ CurrentChar # HYPHEN_CHAR) =>
             new_text' = Append(new_text, CurrentChar) /\ ~found_hyphen' ]_vars

(***************************************************************************)
(* The document handles of an extraction, checked under SpecPages.         *)
(***************************************************************************)
\* the extraction is over: dictionary_output has its pages, or the failure
\* has left _get_pages and the pool, if one was made, is shut down
ExtractionOver == pc = "output" \/ (pc = "raised" /\ ~PoolUp)

\* C24: on every exit path every handle that was opened (by _get_pages in
\* the caller, by the initializer of each worker, by dictionary_output for
\* the links) has been closed exactly once
C24_HandlesClosedOnce ==
    ExtractionOver => \A k \in DOMAIN handles : handles[k].closes = 1

\* no handle is closed twice, and on the paths where nothing raises the
\* handles of the calling process are closed exactly once
C24_CallerHandlesOnSuccess ==
    /\ \A k \in DOMAIN handles : handles[k].closes <= 1
    /\ pc = "output" =>
          \A k \in DOMAIN handles :
              handles[k].owner # "worker" => handles[k].closes = 1

(***************************************************************************)
(* assign_scripts on the spans of a line, given by their boxes and texts:  *)
(* SpecScripts.                                                            *)
(***************************************************************************)
\* most spans on the line
MaxSpans == 3

\* span boxes, in halves of a unit: a wide span on the base line; to its
\* right a raised span, a lowered span and one between the two; further
\* right a span higher than the raised one
SpanBoxes ==
    { << 0, 4, 20, 12 >>, << 21, 2, 25, 8 >>, << 21, 8, 25, 14 >>,
      << 21, 4, 25, 10 >>, << 26, 0, 30, 6 >> }

\* span texts: a letter, a number, a word, a blank and a math symbol
SpanTexts == { << "a" >>, << "1", "2" >>, << "a", "b" >>, << " " >>, << "+" >> }

\* the span get_spans makes for the text t at box b, the k-th of the page
SpanAt(b, t, k) ==
    [ bbox |-> b, text |-> t, rotation |-> 0, char_start_idx |-> k,
      char_end_idx |-> k, url |-> "", superscript |-> FALSE, subscript |-> FALSE ]

InitScripts ==
    /\ tpc = "scripts"
    /\ raw_chars = << >>
    /\ chars = << >>
    /\ \E n \in 0..MaxSpans :
          \E bs \in [1..n -> SpanBoxes] :
              \E ts \in [1..n -> SpanTexts] :
                  spans = [k \in 1..n |-> SpanAt(bs[k], ts[k], k)]
    /\ lines = get_lines(spans)
    /\ blocks = << >>
    /\ IdlePages
    /\ IdleHyphens
    /\ IdleCli
    /\ IdleTable
    /\ IdleBox
    /\ IdleSort
    /\ IdleImages
    /\ IdleDedup

NextScripts ==
    \/ AssignScripts
    \/ GetBlocks

SpecScripts == InitScripts /\ [][NextScripts]_vars

(***************************************************************************)
(* Claims about assign_scripts, checked under SpecScripts.                 *)
(***************************************************************************)
ScriptsAssigned == tpc \in { "blocks", "done" }

\* the places of the page's spans: a line and a place in it
LineSpans == { << n, i >> : n \in DOMAIN lines, i \in 1..MaxSpans }

SpanIn(p) == lines[p[1]].spans[p[2]]

HeldSpans == { p \in LineSpans : p[2] \in DOMAIN lines[p[1]].spans }

\* C25: after assign_scripts no span has both superscript and subscript
\* set, and a span that meets the superscript test is not marked subscript
C25_NeverBothScripts ==
    ScriptsAssigned =>
        \A p \in HeldSpans :
            /\ ~(SpanIn(p).superscript /\ SpanIn(p).subscript)
            /\ SuperscriptTest(lines[p[1]], p[2], superscript_height_threshold,
                               line_distance_threshold)
               => ~SpanIn(p).subscript

\* C25 witness: a span marked superscript that meets the subscript test as
\* well
C25_Witness ==
    /\ ScriptsAssigned
    /\ \E p \in HeldSpans :
          /\ SpanIn(p).superscript
          /\ SubscriptTest(lines[p[1]], p[2], superscript_height_threshold,
                           line_distance_threshold)

\* span q of the same line is another span than p
OtherSpanOfLine(p, q) == q \in HeldSpans /\ q[1] = p[1] /\ q[2] # p[2]

\* C26 as stated: a span is marked superscript only if another span of its
\* line is positioned strictly above it (its top or its bottom is higher on
\* the page; y grows downward)
C26_AsStated ==
    ScriptsAssigned =>
        \A p \in HeldSpans :
            SpanIn(p).superscript =>
                \E q \in HeldSpans :
                    /\ OtherSpanOfLine(p, q)
                    /\ \/ y_start(SpanIn(q).bbox) < y_start(SpanIn(p).bbox)
                       \/ y_end(SpanIn(q).bbox) < y_end(SpanIn(p).bbox)

\* C26: a span is marked superscript only if it is positioned strictly
\* above another span of its line: its top is higher on the page than the
\* top of the other span, by more than line_distance_threshold times the
\* height of the other span
C26_SuperscriptOnlyAboveAnother ==
    ScriptsAssigned =>
        \A p \in HeldSpans :
            SpanIn(p).superscript =>
                \E q \in HeldSpans :
                    /\ OtherSpanOfLine(p, q)
                    /\ y_start(SpanIn(p).bbox) < y_start(SpanIn(q).bbox)
                    /\ 10 * (y_start(SpanIn(q).bbox) - y_start(SpanIn(p).bbox))
                          > line_distance_threshold * height(SpanIn(q).bbox)

\* C26 witness: of two spans with the same text and the same neighbours'
\* heights, the raised one is marked and the one on the base line is not
C26_Witness ==
    /\ ScriptsAssigned
    /\ \E p \in HeldSpans :
          /\ SpanIn(p).superscript
          /\ \E q \in HeldSpans :
                /\ OtherSpanOfLine(p, q)
                /\ ~SpanIn(q).superscript
                /\ SpanTextOkay(SpanIn(q))
                /\ p[2] = Len(lines[p[1]].spans)
                /\ y_start(SpanIn(q).bbox) > y_start(SpanIn(p).bbox)

(***************************************************************************)
(* get_image_bboxes (pdf/pages.py 376-423) and remove_wrong_bboxes         *)
(* (pdf/utils.py 46-89): SpecImages.  The coordinates are those of the     *)
(* Bbox operations above.                                                  *)
(***************************************************************************)
\* most objects on the page
MaxObjects == 2

\* the object types of pdfium: text 1, path 2, image 3, shading 4, form 5
TextType == 1
ImageType == 3
FormType == 5

\* pages.py 386, 389: obj.type in (0, 5), obj.type in (2, 3, 4)
MaybeText(obj) == obj.type \in { 0, 5 }
NeverText(obj) == obj.type \in { 2, 3, 4 }

\* pages.py 384-395: the boxes of the text objects
TextBboxes(objs, page_bbox, page_rotation) ==
    LET text_objs == SelectSeq(objs, LAMBDA obj : ~MaybeText(obj) /\ ~NeverText(obj))
    IN  [k \in DOMAIN text_objs |-> transform_bbox(page_bbox, page_rotation, text_objs[k].pos)]

\* pages.py 401-405
OverlapsWithText(obj, text_bboxes, page_bbox, page_rotation) ==
    \E k \in DOMAIN text_bboxes :
        intersection_area(transform_bbox(page_bbox, page_rotation, obj.pos),
                          text_bboxes[k]) > 0

\* pages.py 384-409: the objects kept, those of the first loop first
NonTextObjects(objs, page_bbox, page_rotation) ==
    LET text_bboxes == TextBboxes(objs, page_bbox, page_rotation)
    IN  SelectSeq(objs, NeverText)
        \o SelectSeq(objs, LAMBDA obj :
               MaybeText(obj) /\ ~OverlapsWithText(obj, text_bboxes, page_bbox, page_rotation))

\* utils.py 56: the page's own bbox in device space
TransformedPageBbox(page_bbox, page_rotation) ==
    transform_bbox(page_bbox, page_rotation, page_bbox)

\* utils.py 46-89
remove_wrong_bboxes(transformed_bboxes, page_bbox, page_rotation) ==
    [k \in DOMAIN transformed_bboxes |->
        Clip(transformed_bboxes[k], TransformedPageBbox(page_bbox, page_rotation))]

\* pages.py 411-423
get_image_bboxes(objs, page_bbox, page_rotation) ==
    LET non_text_objects == NonTextObjects(objs, page_bbox, page_rotation)
        non_text_bboxes ==
            [k \in DOMAIN non_text_objects |->
                transform_bbox(page_bbox, page_rotation, non_text_objects[k].pos)]
        filtered == remove_wrong_bboxes(non_text_bboxes, page_bbox, page_rotation)
        valid == SelectSeq(filtered, LAMBDA bbox : bbox # None)
    IN  [k \in DOMAIN valid |-> valid[k][1]]

\* what get_pos() gives, in page space (left, bottom, right, top): objects
\* on the page, over its right edge and beside it, low and high
ObjectBoxes ==
    { << xs[1], ys[1], xs[2], ys[2] >> :
        xs \in { << 0, 1 >>, << 1, 3 >>, << 3, BigCoord >>, << BigCoord, BigCoord >> },
        ys \in { << 0, 3 >>, << 3, BigCoord >> } }

PageObjects == { [ type |-> t, pos |-> b ] : t \in { TextType, ImageType, FormType }, b \in ObjectBoxes }

\* pages of one size, at the origin and away from it
ImagePageBoxes ==
    { << o, o, o + Pow2(MantissaBits) - 2, o + BigCoord >> : o \in { 0, 2 } }

InitImages ==
    /\ ipc = "call"
    /\ objects \in UNION { [1..n -> PageObjects] : n \in 0..MaxObjects }
    /\ img_page_bbox \in ImagePageBoxes
    /\ img_page_rotation \in { 0, 90, 180, 270 }
    /\ image_bboxes = None
    /\ IdlePages
    /\ IdleHyphens
    /\ IdleText
    /\ IdleCli
    /\ IdleTable
    /\ IdleBox
    /\ IdleSort
    /\ IdleDedup

\* pages.py 376-423
GetImageBboxes ==
    /\ ipc = "call"
    /\ image_bboxes' = Some(get_image_bboxes(objects, img_page_bbox, img_page_rotation))
    /\ ipc' = "done"
    /\ UNCHANGED << objects, img_page_bbox, img_page_rotation >>
    /\ UNCHANGED << pageVars, hyphenVars, textVars, cliVars, tableVars, boxVars, sortVars, dedupVars >>

NextImages == GetImageBboxes

SpecImages == InitImages /\ [][NextImages]_vars

(***************************************************************************)
(* Claims about get_image_bboxes, checked under SpecImages.                *)
(***************************************************************************)
\* the box of the k-th kept object, before and after the clipping
KeptBbox(k) ==
    transform_bbox(img_page_bbox, img_page_rotation,
                   NonTextObjects(objects, img_page_bbox, img_page_rotation)[k].pos)

ClippedToPage(b) ==
    LET tpb == TransformedPageBbox(img_page_bbox, img_page_rotation)
    IN  << Max(b[1], tpb[1]), Max(b[2], tpb[2]), Min(b[3], tpb[3]), Min(b[4], tpb[4]) >>

KeptObjects == DOMAIN NonTextObjects(objects, img_page_bbox, img_page_rotation)

\* C27: every box get_image_bboxes returns lies inside the page's own
\* rotated device-space bbox and has x_start <= x_end and y_start <= y_end;
\* the boxes returned are, in order, the clipped boxes of the kept objects
\* that are not inverted
C27_ImageBboxesWithinPage ==
    ipc = "done" =>
        /\ \A k \in DOMAIN image_bboxes[1] :
              /\ inside(image_bboxes[1][k],
                        TransformedPageBbox(img_page_bbox, img_page_rotation))
              /\ WellOrdered(image_bboxes[1][k])
        /\ LET clipped == [k \in KeptObjects |-> ClippedToPage(KeptBbox(k))]
           IN  image_bboxes[1] = SelectSeq(clipped, WellOrdered)

\* C27 witness: of two kept objects one is clipped to a smaller box and
\* returned, the other is dropped because its clipped box is inverted
C27_Witness ==
    /\ ipc = "done"
    /\ Len(image_bboxes[1]) = 1
    /\ \E k \in KeptObjects :
          /\ WellOrdered(ClippedToPage(KeptBbox(k)))
          /\ ClippedToPage(KeptBbox(k)) # KeptBbox(k)
    /\ \E k \in KeptObjects : ~WellOrdered(ClippedToPage(KeptBbox(k)))

(***************************************************************************)
(* The tree of a page, checked under SpecText.                             *)
(***************************************************************************)
\* the glyphs of a line and of a block, in the order of the tree
LineChars(line) == Flatten([k \in DOMAIN line.spans |-> line.spans[k].chars])
BlockChars(block) == Flatten([k \in DOMAIN block.lines |-> LineChars(block.lines[k])])
TreeChars(bs) == Flatten([k \in DOMAIN bs |-> BlockChars(bs[k])])

\* C28: the glyphs of the blocks, read block by block, line by line and
\* span by span, are the deduplicated glyph stream in its order, and no
\* block, line or span is empty
C28_TreeFlattensToGlyphStream ==
    BlocksBuilt =>
        /\ TreeChars(blocks) = chars
        /\ \A b \in DOMAIN blocks :
              /\ blocks[b].lines # << >>
              /\ \A l \in DOMAIN blocks[b].lines :
                    /\ blocks[b].lines[l].spans # << >>
                    /\ \A s \in DOMAIN blocks[b].lines[l].spans :
                          blocks[b].lines[l].spans[s].chars # << >>

\* C28 witness: a page of three glyphs in one block of two lines, one of
\* them a span of two glyphs
C28_Witness ==
    /\ BlocksBuilt
    /\ Len(chars) = 3
    /\ Len(blocks) = 1
    /\ Len(blocks[1].lines) = 2
    /\ \E l \in DOMAIN blocks[1].lines :
          \E s \in DOMAIN blocks[1].lines[l].spans :
              Len(blocks[1].lines[l].spans[s].chars) = 2

(***************************************************************************)
(* Texts without a marker in the join mode of handle_hyphens.              *)
(***************************************************************************)
NoMarker(t) == \A j \in DOMAIN t : t[j] # HYPHEN_CHAR

JoinedWithoutMarker == hpc = "done" /\ ~keep_hyphens /\ NoMarker(text_arg)

\* C29: in join mode a text that holds no soft-hyphen marker is returned
\* unchanged
C29_NoMarkerUnchanged ==
    JoinedWithoutMarker => text = text_arg

\* what is returned is the text without its last character
C29_NoMarkerAllButLast ==
    JoinedWithoutMarker => text = SubSeq(text_arg, 1, Len(text_arg) - 1)

(***************************************************************************)
(* deduplicate_chars applied to a glyph stream and to its own result:      *)
(* SpecDedup.                                                              *)
(***************************************************************************)
\* longest glyph stream deduplicated twice
MaxDedupChars == 6

\* the glyphs of these streams: a letter and the blank after it, the letter
\* turned by half a radian, and a bold letter at the same place
DedupGlyphs ==
    { Glyph("x", FontBase, 0, BoxBase), Glyph(" ", FontBase, 0, BoxNext),
      Glyph("x", FontBase, 5, BoxBase), Glyph("a", FontBold, 0, BoxBase) }

InitDedup ==
    /\ dpc = "call"
    /\ dedup_in \in { WithIndex(gs) :
                        gs \in UNION { [1..n -> DedupGlyphs] : n \in 0..MaxDedupChars } }
    /\ dedup_out = << >>
    /\ dedup_again = << >>
    /\ IdlePages
    /\ IdleHyphens
    /\ IdleText
    /\ IdleCli
    /\ IdleTable
    /\ IdleBox
    /\ IdleSort
    /\ IdleImages

\* chars.py 73-138
DedupChars ==
    /\ dpc = "call"
    /\ dedup_out' = deduplicate_chars(dedup_in)
    /\ dpc' = "again"
    /\ UNCHANGED << dedup_in, dedup_again >>
    /\ UNCHANGED << pageVars, hyphenVars, textVars, cliVars, tableVars, boxVars, sortVars, imgVars >>

\* chars.py 73-138, on the list the first call returned
DedupCharsAgain ==
    /\ dpc = "again"
    /\ dedup_again' = deduplicate_chars(dedup_out)
    /\ dpc' = "done"
    /\ UNCHANGED << dedup_in, dedup_out >>
    /\ UNCHANGED << pageVars, hyphenVars, textVars, cliVars, tableVars, boxVars, sortVars, imgVars >>

NextDedup ==
    \/ DedupChars
    \/ DedupCharsAgain

SpecDedup == InitDedup /\ [][NextDedup]_vars

(***************************************************************************)
(* Claims about deduplicate_chars applied twice, checked under SpecDedup.  *)
(***************************************************************************)
\* the words of the stream cs hold no two words with the same key
NoTwoWordsWithOneKey(cs) ==
    \A j \in DOMAIN Words(cs) : \A k \in DOMAIN Words(cs) :
        j # k => ~SameDedupKey(Words(cs)[j], Words(cs)[k])

\* C30: deduplicate_chars applied to its own output removes no further
\* glyph: the words of its output hold no two words with the same key
C30_DedupIdempotent ==
    /\ dpc = "done" => dedup_again = dedup_out
    /\ dpc \in { "again", "done" } => NoTwoWordsWithOneKey(dedup_out)

\* the words of cs, each as the places of its glyphs in the first stream
WordPlaces(cs) ==
    [k \in DOMAIN Words(cs) |->
        [j \in DOMAIN Words(cs)[k].chars |-> Words(cs)[k].chars[j].char_idx]]

\* the removal of a word has joined no two words: the words of the output
\* are words of the input
NoWordsJoined ==
    \A k \in DOMAIN WordPlaces(dedup_out) :
        \E j \in DOMAIN WordPlaces(dedup_in) :
            WordPlaces(dedup_out)[k] = WordPlaces(dedup_in)[j]

\* the second call removes nothing unless the first call's removal of a word
\* joined the words around it
C30_IdempotentUnlessJoined ==
    (dpc = "done" /\ NoWordsJoined) => dedup_again = dedup_out

=============================================================================
